---- MODULE Spec2Model ----
(***************************************************************************)
(* A model of starling's reconciliation pipeline: the graph engine         *)
(* (src/src/graph.rs), the per-file diff (src/src/path_node.rs), the read  *)
(* queries (src/src/node.rs) and the orchestrator (src/src/fs_engine.rs).  *)
(*                                                                         *)
(* Paths and node ids are small integers; the integer order on paths is    *)
(* the order `sort_unstable` gives PathBufs.  A file's contents are held   *)
(* in parsed form: either a read/parse failure, or a map from node id to   *)
(* the node's title and its links (target id -> link text).                *)
(***************************************************************************)
EXTENDS Integers, Sequences, FiniteSets, TLC

VARIABLES
    nodes,                \* Graph.nodes: node id -> path
    paths,                \* Graph.paths: path -> PathNode
    invalid_connections,  \* Graph.invalid_connections: target id -> set of source ids
    writes,               \* the Vec<Write> returned by the last finished process_fs_patch
    panicked,             \* whether the last process_fs_patch call hit an unwrap() on None
    calls,                \* number of process_fs_patch calls made (bounded by MaxCalls)
    patched,              \* patch model: the process_fs_patch call made, with its
                          \* batch, the iteration order, and the graph it was made on
    tasks,                \* concurrent model: per task, the call it runs and its position
    locks,                \* concurrent model: per RwLock, holders and FIFO wait queue
    graph0,               \* concurrent model: the graph before any of the calls began
    orch,                 \* orchestrator model: the state owned by FsEngine::run's loop
    ptasks,               \* orchestrator model: the spawned patch tasks, by patch index
    writes_queue,         \* orchestrator model: FsEngine.writes_queue
    applied,              \* orchestrator model: the patch indices whose process_fs_patch
                          \* ran, in the order they ran
    debounced,            \* debouncer model: a DebouncedEvents
    pushed,               \* debouncer model: the events pushed into it, in order
    detector,             \* detector model: a ConflictDetector
    regs,                 \* detector model: per patch index, what its callers have done
    last,                 \* detector model: the last detect_conflicts call and its outcome
    batches,              \* combining model: the event sequences debounced into batches
    merged,               \* combining model: the outcome of combining those batches
    drain                 \* drain model: the detector, the writes queue and the files

vars == <<nodes, paths, invalid_connections, writes, panicked, calls, patched, tasks, locks, graph0,
          orch, ptasks, writes_queue, applied, debounced, pushed, detector, regs, last,
          batches, merged, drain>>

unitVars == <<debounced, pushed, detector, regs, last, batches, merged, drain>>

graphVars == <<nodes, paths, invalid_connections>>

-----------------------------------------------------------------------------
(* Universe                                                                *)

Ids == {1, 2, 3}
PathSet == {1, 2}

MaxCalls == 2

EmptyFn == [x \in {} |-> 0]

Remove(f, k) == [x \in DOMAIN f \ {k} |-> f[x]]

Put(f, k, v) == [x \in DOMAIN f \cup {k} |-> IF x = k THEN v ELSE f[x]]

RECURSIVE Iter(_, _)
\* The elements of a set of integers as a sequence: ascending when asc, else
\* descending.  Stands for the iteration order of a HashSet/HashMap, which the
\* code does not control; with at most two elements these are all the orders.
Iter(S, asc) ==
    IF S = {} THEN <<>>
    ELSE LET x == IF asc THEN CHOOSE y \in S : \A z \in S : y <= z
                         ELSE CHOOSE y \in S : \A z \in S : y >= z
         IN <<x>> \o Iter(S \ {x}, asc)

\* F(v), with v evaluated once
With(v, F(_)) == CHOOSE y \in { F(x) : x \in {v} } : TRUE

RECURSIVE Flatten(_)
Flatten(ss) == IF ss = <<>> THEN <<>> ELSE Head(ss) \o Flatten(Tail(ss))

-----------------------------------------------------------------------------
(* File contents (what PathPatch.contents_res parses to)                   *)

FileNode(title, links) == [title |-> title, links |-> links]

ReadFailed == [ok |-> FALSE, nodes |-> EmptyFn]

File(ns) == [ok |-> TRUE, nodes |-> ns]

NoLinks == EmptyFn

LinkTo(t) == (t :> "x")

\* The documents the modelled directory can hold.
Contents ==
    { ReadFailed,
      File(1 :> FileNode("t", LinkTo(2))),
      File(1 :> FileNode("t", NoLinks)),
      File(2 :> FileNode("t", NoLinks)),
      File(2 :> FileNode("u", LinkTo(1))),
      File((1 :> FileNode("t", NoLinks)) @@ (2 :> FileNode("t", LinkTo(1)))),
      File(3 :> FileNode("t", LinkTo(2))) }

-----------------------------------------------------------------------------
(* GraphUpdate instructions (graph.rs, enum GraphUpdate)                   *)

CreatePathNode(pn) == [op |-> "CreatePathNode", node |-> pn]
ModifyPathNode(p, pn) == [op |-> "ModifyPathNode", path |-> p, node |-> pn]
DeletePathNode(p) == [op |-> "DeletePathNode", path |-> p]
AddNode(id, p) == [op |-> "AddNode", id |-> id, path |-> p]
RemoveNode(id) == [op |-> "RemoveNode", id |-> id]
RemoveBacklink(on, from) == [op |-> "RemoveBacklink", on |-> on, from |-> from]
RemoveInvalidConnection(from, to) == [op |-> "RemoveInvalidConnection", from |-> from, to |-> to]
CheckConnection(from, to) == [op |-> "CheckConnection", from |-> from, to |-> to]

\* path_node.rs still names the instruction InvalidateConnection{on, to}; in
\* graph.rs that variant is gone and CheckConnection "is also used to
\* invalidate known-bad connections".
InvalidateConnection(on, to) == CheckConnection(on, to)

MapOps == {"CreatePathNode", "ModifyPathNode", "DeletePathNode", "AddNode",
           "RemoveNode", "RemoveInvalidConnection"}

IsMapUpdate(u) == u.op \in MapOps

IsNodeUpdate(u) == u.op \notin MapOps

-----------------------------------------------------------------------------
(* PathNode (path_node.rs)                                                 *)

\* ConnectedString::from_str: every parsed connection starts invalid;
\* SingleConnectedNode::new: no backlinks.
ParseNode(fn) ==
    [title |-> fn.title,
     conns |-> [t \in DOMAIN fn.links |-> [valid |-> FALSE, title |-> fn.links[t]]],
     backlinks |-> {}]

from_document(file) == [id \in DOMAIN file.nodes |-> ParseNode(file.nodes[id])]

PathNodeRec(p, hasdoc, doc, ids, err) ==
    [path |-> p, hasdoc |-> hasdoc, document |-> doc, node_ids |-> ids, error |-> err]

\* The `dummy` of PathNode::new
DummyPathNode(p) == PathNodeRec(p, FALSE, EmptyFn, {}, FALSE)

\* The instructions for one node that is no longer in its path.
RemovedNodeUpdates(old_doc, id) ==
    LET n == old_doc[id]
        conns == [i \in 1..Len(Iter(DOMAIN n.conns, TRUE)) |->
                    LET t == Iter(DOMAIN n.conns, TRUE)[i]
                    IN IF n.conns[t].valid THEN RemoveBacklink(t, id)
                                           ELSE RemoveInvalidConnection(id, t)]
        backs == [i \in 1..Len(Iter(n.backlinks, TRUE)) |->
                    InvalidateConnection(Iter(n.backlinks, TRUE)[i], id)]
    IN conns \o backs \o <<RemoveNode(id)>>

\* PathNode::delete
Delete(pn, asc) ==
    (IF pn.hasdoc
     THEN Flatten([i \in 1..Len(Iter(pn.node_ids, asc)) |->
                     RemovedNodeUpdates(pn.document, Iter(pn.node_ids, asc)[i])])
     ELSE <<>>)
    \o <<DeletePathNode(pn.path)>>

SeqOf(S, F(_)) == [i \in 1..Len(Iter(S, TRUE)) |-> F(Iter(S, TRUE)[i])]

\* The instructions for one node that is new in its path.  (The
\* ValidateInvalidConnection{to} that path_node.rs pushes after AddNode is, in
\* graph.rs, part of AddNode itself.)
AddedNodeUpdates(new_doc, id, p) ==
    LET F(t) == CheckConnection(id, t)
    IN <<AddNode(id, p)>> \o SeqOf(DOMAIN new_doc[id].conns, F)

\* A retained node after the old node's validities and backlinks are
\* transferred to the new parse (types and titles stay those of the new parse).
RetainedNode(old_n, new_n) ==
    [title |-> new_n.title,
     conns |-> [t \in DOMAIN new_n.conns |->
                  IF t \in DOMAIN old_n.conns
                  THEN [valid |-> old_n.conns[t].valid, title |-> new_n.conns[t].title]
                  ELSE new_n.conns[t]],
     backlinks |-> new_n.backlinks \cup old_n.backlinks]

\* The instructions for a retained node, had a change of its title been
\* passed over
RetainedNodeUpdates_ignoring_title(old_n, new_n, id) ==
    LET Check(t) == CheckConnection(id, t)
        Left(t) == IF old_n.conns[t].valid THEN RemoveBacklink(t, id)
                                           ELSE RemoveInvalidConnection(id, t)
    IN SeqOf(DOMAIN new_n.conns \ DOMAIN old_n.conns, Check)
       \o SeqOf(DOMAIN old_n.conns \ DOMAIN new_n.conns, Left)

\* The instructions for one node present before and after the update.
RetainedNodeUpdates(old_n, new_n, id) ==
    LET Check(t) == CheckConnection(id, t)
        Left(t) == IF old_n.conns[t].valid THEN RemoveBacklink(t, id)
                                           ELSE RemoveInvalidConnection(id, t)
        Back(b) == CheckConnection(b, id)
    IN SeqOf(DOMAIN new_n.conns \ DOMAIN old_n.conns, Check)
       \o SeqOf(DOMAIN old_n.conns \ DOMAIN new_n.conns, Left)
       \o (IF old_n.title # new_n.title
           THEN SeqOf(RetainedNode(old_n, new_n).backlinks, Back)
           ELSE <<>>)

\* PathNode::_update on contents that parse: the new document and the
\* instructions.  asc fixes the iteration order of the id sets.
UpdateOk(pn, p, file, asc) ==
    LET new_ids == DOMAIN file.nodes
        parsed == from_document(file)
        removed == Iter(pn.node_ids \ new_ids, asc)
        added == Iter(new_ids \ pn.node_ids, asc)
        retained == Iter(new_ids \cap pn.node_ids, asc)
        doc == IF pn.hasdoc
               THEN [id \in new_ids |->
                       IF id \in pn.node_ids
                       THEN RetainedNode(pn.document[id], parsed[id])
                       ELSE parsed[id]]
               ELSE parsed
        ups == IF pn.hasdoc
               THEN Flatten([i \in 1..Len(removed) |->
                               RemovedNodeUpdates(pn.document, removed[i])])
                    \o Flatten([i \in 1..Len(added) |->
                               AddedNodeUpdates(parsed, added[i], p)])
                    \o Flatten([i \in 1..Len(retained) |->
                               RetainedNodeUpdates(pn.document[retained[i]],
                                                   parsed[retained[i]], retained[i])])
               ELSE Flatten([i \in 1..Len(Iter(new_ids, asc)) |->
                               AddedNodeUpdates(parsed, Iter(new_ids, asc)[i], p)])
    IN [node |-> PathNodeRec(p, TRUE, doc, new_ids, FALSE), updates |-> ups]

\* PathNode::update, had a failed read or parse left the path with no
\* document
Update_dropping_document(pn, p, file, asc) ==
    IF file.ok
    THEN UpdateOk(pn, p, file, asc)
    ELSE [node |-> PathNodeRec(p, FALSE, EmptyFn, pn.node_ids, TRUE),
          updates |-> <<>>]

\* PathNode::update: a failed read or parse keeps the last document and the
\* old node_ids, records the error and emits nothing.
Update(pn, p, file, asc) ==
    IF file.ok
    THEN UpdateOk(pn, p, file, asc)
    ELSE [node |-> PathNodeRec(p, pn.hasdoc, pn.document, pn.node_ids, TRUE),
          updates |-> <<>>]

\* PathNode::new
New(p, file, asc) == Update(DummyPathNode(p), p, file, asc)

\* PathNode::rename is not in src/src/path_node.rs; process_renames uses it to
\* rewrite the PathNode's internal path.
rename(pn, to) == [pn EXCEPT !.path = to]

\* PathNode::add_backlink / SingleConnectedNode::add_backlink
add_backlink(pn, on, from) ==
    IF pn.hasdoc /\ on \in DOMAIN pn.document
    THEN [pn EXCEPT !.document[on].backlinks = @ \cup {from}]
    ELSE pn

\* PathNode::remove_backlink
remove_backlink(pn, on, from) ==
    IF pn.hasdoc /\ on \in DOMAIN pn.document
    THEN [pn EXCEPT !.document[on].backlinks = @ \ {from}]
    ELSE pn

\* PathNode::invalidate_connection: nothing if the node or connection is absent
invalidate_connection(pn, on, to) ==
    IF pn.hasdoc /\ on \in DOMAIN pn.document /\ to \in DOMAIN pn.document[on].conns
    THEN [pn EXCEPT !.document[on].conns[to].valid = FALSE]
    ELSE pn

\* PathNode::validate_connection, had it set the title and left the
\* connection as it was marked
validate_connection_retitling_only(pn, from, to, to_title) ==
    IF pn.hasdoc /\ from \in DOMAIN pn.document /\ to \in DOMAIN pn.document[from].conns
    THEN [pn EXCEPT !.document[from].conns[to].title = to_title]
    ELSE pn

\* PathNode::validate_connection: marks valid and sets the variants' title
validate_connection(pn, from, to, to_title) ==
    IF pn.hasdoc /\ from \in DOMAIN pn.document /\ to \in DOMAIN pn.document[from].conns
    THEN [pn EXCEPT !.document[from].conns[to] = [valid |-> TRUE, title |-> to_title]]
    ELSE pn

\* PathNode::display_title is Some iff the path has a document holding the id
has_display_title(pn, id) == pn.hasdoc /\ id \in DOMAIN pn.document

display_title(pn, id) == pn.document[id].title

\* ConnectedDocument::to_document(..).into_string(..): the text a corrective
\* write holds, in the parsed form of Contents
to_document(pn) ==
    File([id \in DOMAIN pn.document |->
            FileNode(pn.document[id].title,
                     [t \in DOMAIN pn.document[id].conns |-> pn.document[id].conns[t].title])])

-----------------------------------------------------------------------------
(* Graph (graph.rs)                                                        *)

\* Graph::new
EmptyGraph == [nodes |-> EmptyFn, paths |-> EmptyFn, ic |-> EmptyFn]

RECURSIVE RenameIds(_, _, _)
\* The loop `for node_id in path_node_ref.ids()` of process_renames:
\* nodes.get_mut(node_id).unwrap() panics on an id that `nodes` lacks.
RenameIds(ns, ids, to) ==
    IF ids = <<>> THEN [nodes |-> ns, panic |-> FALSE]
    ELSE IF Head(ids) \notin DOMAIN ns THEN [nodes |-> ns, panic |-> TRUE]
    ELSE RenameIds(Put(ns, Head(ids), to), Tail(ids), to)

RECURSIVE process_renames(_, _, _)
\* Graph::process_renames, under the write locks on nodes, indices and paths
process_renames(g, renames, asc) ==
    IF renames = <<>> THEN [nodes |-> g.nodes, paths |-> g.paths, panic |-> FALSE]
    ELSE LET from == Head(renames)[1]
             to == Head(renames)[2]
         IN IF from \notin DOMAIN g.paths
            THEN process_renames(g, Tail(renames), asc)
            ELSE LET pn == g.paths[from]
                     r == RenameIds(g.nodes, Iter(pn.node_ids, asc), to)
                     removed == Remove(g.paths, from)
                 IN IF r.panic
                    THEN [nodes |-> r.nodes, paths |-> removed, panic |-> TRUE]
                    ELSE process_renames(
                           [g EXCEPT !.nodes = r.nodes,
                                     !.paths = Put(removed, to, rename(pn, to))],
                           Tail(renames), asc)

\* Phase B, had the instructions of the creations come first and those of
\* the deletions last
PhaseB_creations_first(ps, patch, asc) ==
    LET Cre(pp) == With(New(pp.path, pp.contents, asc),
                        LAMBDA r : r.updates \o <<CreatePathNode(r.node)>>)
        Del(p) == IF p \in DOMAIN ps THEN Delete(ps[p], asc) ELSE <<>>
        Mod(pp) == IF pp.path \in DOMAIN ps
                   THEN With(Update(ps[pp.path], pp.path, pp.contents, asc),
                             LAMBDA r : r.updates \o <<ModifyPathNode(pp.path, r.node)>>)
                   ELSE <<>>
        Demoted(pp) == IF pp.path \in DOMAIN ps THEN <<>> ELSE Cre(pp)
    IN Flatten([i \in 1..Len(patch.creations) |-> Cre(patch.creations[i])])
       \o Flatten([i \in 1..Len(patch.modifications) |-> Demoted(patch.modifications[i])])
       \o Flatten([i \in 1..Len(patch.modifications) |-> Mod(patch.modifications[i])])
       \o Flatten([i \in 1..Len(patch.deletions) |-> Del(patch.deletions[i])])

\* Phase B of process_fs_patch, under the read lock on paths: the instruction
\* list, deletions first, then modifications, then creations (a modification
\* of an untracked path is a creation).
PhaseB(ps, patch, asc) ==
    LET Cre(pp) == With(New(pp.path, pp.contents, asc),
                        LAMBDA r : r.updates \o <<CreatePathNode(r.node)>>)
        Del(p) == IF p \in DOMAIN ps THEN Delete(ps[p], asc) ELSE <<>>
        Mod(pp) == IF pp.path \in DOMAIN ps
                   THEN With(Update(ps[pp.path], pp.path, pp.contents, asc),
                             LAMBDA r : r.updates \o <<ModifyPathNode(pp.path, r.node)>>)
                   ELSE <<>>
        Demoted(pp) == IF pp.path \in DOMAIN ps THEN <<>> ELSE Cre(pp)
    IN Flatten([i \in 1..Len(patch.deletions) |-> Del(patch.deletions[i])])
       \o Flatten([i \in 1..Len(patch.modifications) |-> Mod(patch.modifications[i])])
       \o Flatten([i \in 1..Len(patch.creations) |-> Cre(patch.creations[i])])
       \o Flatten([i \in 1..Len(patch.modifications) |-> Demoted(patch.modifications[i])])

\* The classification loop of process_updates
should_lock_nodes(ups) == \E i \in 1..Len(ups) : ups[i].op \in {"AddNode", "RemoveNode"}

should_lock_paths(ups) ==
    \E i \in 1..Len(ups) : ups[i].op \in {"CreatePathNode", "ModifyPathNode", "DeletePathNode"}

should_lock_invalid_connections(ups) ==
    \E i \in 1..Len(ups) :
        ups[i].op \in {"AddNode", "RemoveInvalidConnection", "CheckConnection"}

nodes_to_lock(ups) ==
    UNION { IF ups[i].op = "AddNode" THEN {ups[i].id}
            ELSE IF ups[i].op = "RemoveBacklink" THEN {ups[i].on}
            ELSE IF ups[i].op = "CheckConnection" THEN {ups[i].from, ups[i].to}
            ELSE {} : i \in 1..Len(ups) }

\* paths_to_write, had the classification loop also scheduled every modified
\* path
paths_to_write_with_modified(ups) ==
    { ups[i].path : i \in { j \in 1..Len(ups) : ups[j].op \in {"AddNode", "ModifyPathNode"} } }

paths_to_write(ups) == { ups[i].path : i \in { j \in 1..Len(ups) : ups[j].op = "AddNode" } }

map_updates(ups) == SelectSeq(ups, IsMapUpdate)

node_updates(ups) == SelectSeq(ups, IsNodeUpdate)

\* The RemoveInvalidConnection arm of stage 1
ApplyRemoveInvalidConnection(ic, from, to) ==
    IF from \in DOMAIN ic THEN [ic EXCEPT ![from] = @ \ {to}] ELSE ic

\* One stage-1 instruction.  st: nodes, paths, ic, node_updates, nodes_to_lock, panic
MapUpdate(st, u) ==
    CASE u.op = "CreatePathNode" ->
           [st EXCEPT !.paths = Put(@, u.node.path, u.node)]
      [] u.op = "ModifyPathNode" ->
           IF u.path \in DOMAIN st.paths
           THEN [st EXCEPT !.paths = Put(@, u.path, u.node)]
           ELSE [st EXCEPT !.panic = TRUE]
      [] u.op = "DeletePathNode" ->
           [st EXCEPT !.paths = Remove(@, u.path)]
      [] u.op = "AddNode" ->
           IF u.id \in DOMAIN st.ic
           THEN LET F(r) == CheckConnection(r, u.id)
                IN [st EXCEPT !.nodes = Put(@, u.id, u.path),
                              !.ic = Remove(@, u.id),
                              !.nodes_to_lock = @ \cup {u.id} \cup st.ic[u.id],
                              !.node_updates = @ \o SeqOf(st.ic[u.id], F)]
           ELSE [st EXCEPT !.nodes = Put(@, u.id, u.path)]
      [] u.op = "RemoveNode" ->
           [st EXCEPT !.nodes = Remove(@, u.id)]
      [] u.op = "RemoveInvalidConnection" ->
           [st EXCEPT !.ic = ApplyRemoveInvalidConnection(@, u.from, u.to)]

RECURSIVE Fold(_, _, _)
Fold(Op(_, _), st, us) ==
    IF us = <<>> \/ st.panic THEN st ELSE Fold(Op, Op(st, Head(us)), Tail(us))

\* Stage 1 of process_updates, under the map write locks
Stage1(g, ups) ==
    Fold(MapUpdate,
         [nodes |-> g.nodes, paths |-> g.paths, ic |-> g.ic,
          node_updates |-> node_updates(ups), nodes_to_lock |-> nodes_to_lock(ups),
          paths_to_write |-> paths_to_write(ups), panic |-> FALSE],
         map_updates(ups))

\* paths_to_lock: the paths of the ids to lock that `nodes` resolves
paths_to_lock(st) == { st.nodes[id] : id \in st.nodes_to_lock \cap DOMAIN st.nodes }

\* One stage-2 instruction
NodeUpdate(st, u) ==
    CASE u.op = "RemoveBacklink" ->
           IF u.on \in DOMAIN st.nodes
           THEN [st EXCEPT !.paths[st.nodes[u.on]] = remove_backlink(@, u.on, u.from)]
           ELSE st
      [] u.op = "CheckConnection" ->
           IF u.from \notin DOMAIN st.nodes THEN st
           ELSE IF u.to \in DOMAIN st.nodes
           THEN LET pf == st.nodes[u.from]
                    pt == st.nodes[u.to]
                    linked == [st.paths EXCEPT ![pt] = add_backlink(@, u.to, u.from)]
                IN IF ~has_display_title(linked[pt], u.to)
                   THEN [st EXCEPT !.paths = linked, !.panic = TRUE]
                   ELSE [st EXCEPT
                           !.paths = [linked EXCEPT ![pf] =
                               validate_connection(@, u.from, u.to,
                                                   display_title(linked[pt], u.to))],
                           !.paths_to_write = @ \cup {pf}]
           ELSE [st EXCEPT
                   !.paths[st.nodes[u.from]] = invalidate_connection(@, u.from, u.to),
                   !.ic = Put(@, u.to,
                              (IF u.to \in DOMAIN st.ic THEN st.ic[u.to] ELSE {})
                              \cup {u.from})]

\* Stage 2 of process_updates: the fine-grained locks, the node updates and
\* the corrective writes.  path_node_getter(path).unwrap() panics on a path
\* that `paths` lacks; path_nodes.get(&path).unwrap() on a path to write that
\* was not locked.
Stage2(s1) ==
    IF s1.panic THEN s1 @@ [writes |-> {}]
    ELSE IF ~(paths_to_lock(s1) \subseteq DOMAIN s1.paths)
    THEN [s1 EXCEPT !.panic = TRUE] @@ [writes |-> {}]
    ELSE With(Fold(NodeUpdate, s1, s1.node_updates), LAMBDA s2 :
            IF s2.panic THEN s2 @@ [writes |-> {}]
            ELSE IF ~(s2.paths_to_write \subseteq paths_to_lock(s1))
            THEN [s2 EXCEPT !.panic = TRUE] @@ [writes |-> {}]
            ELSE s2 @@ [writes |->
                   { [path |-> p, contents |-> to_document(s2.paths[p])] :
                       p \in { q \in s2.paths_to_write : s2.paths[q].hasdoc } }])

\* Graph::process_updates: the final maps, the writes, and whether it panicked
process_updates(g, ups) ==
    With(Stage1(g, ups), LAMBDA s1 :
      With(Stage2(s1), LAMBDA r :
        [nodes |-> r.nodes, paths |-> r.paths, ic |-> r.ic,
         writes |-> r.writes, panic |-> r.panic]))

\* Graph::process_fs_patch, run alone
process_fs_patch(g, patch, asc) ==
    With(process_renames(g, patch.renames, asc), LAMBDA r :
       IF r.panic
       THEN [nodes |-> r.nodes, paths |-> r.paths, ic |-> g.ic, writes |-> {}, panic |-> TRUE]
       ELSE process_updates([g EXCEPT !.nodes = r.nodes, !.paths = r.paths],
                            PhaseB(r.paths, patch, asc)))

-----------------------------------------------------------------------------
(* Patches (debouncer.rs, patch.rs)                                        *)

NoPath == 0

\* One entry of DebouncedEvents.inner: the (new) path, the old path if the
\* path was renamed, the event on the path if there is one, and what
\* PathPatch::new reads from the path.
Entry(p, old, kind, c) == [path |-> p, old |-> old, kind |-> kind, contents |-> c]

Entries ==
    { Entry(p, old, "Delete", ReadFailed) : p \in PathSet, old \in PathSet \cup {NoPath} }
    \cup { Entry(p, old, k, c) : p \in PathSet, old \in PathSet \cup {NoPath},
                                 k \in {"Create", "Modify"}, c \in Contents }
    \cup { Entry(p, old, "None", ReadFailed) : p \in PathSet, old \in PathSet }

\* GraphPatch::from_events: a rename for each entry with an old path; each
\* event goes to the list of its kind; es is the order the map is iterated.
from_events(es) ==
    LET Of(k) == SelectSeq(es, LAMBDA e : e.kind = k)
        Renamed == SelectSeq(es, LAMBDA e : e.old # NoPath)
        PP(xs) == [i \in 1..Len(xs) |-> [path |-> xs[i].path, contents |-> xs[i].contents]]
    IN [renames |-> [i \in 1..Len(Renamed) |-> <<Renamed[i].old, Renamed[i].path>>],
        deletions |-> [i \in 1..Len(Of("Delete")) |-> Of("Delete")[i].path],
        creations |-> PP(Of("Create")),
        modifications |-> PP(Of("Modify"))]

\* DebouncedEvents::start_from_dir: a creation for every file of the directory
Dirs ==
    { <<>> }
    \cup { <<Entry(p, NoPath, "Create", c)>> : p \in PathSet, c \in Contents }
    \cup { <<Entry(q[1], NoPath, "Create", c), Entry(q[2], NoPath, "Create", d)>> :
             q \in { r \in PathSet \X PathSet : r[1] # r[2] }, c \in Contents, d \in Contents }

\* The event batches the model feeds the graph: one entry (a rename, an event
\* or both), or modifications of two paths.
Batches ==
    { <<e>> : e \in { x \in Entries : x.old # x.path } }
    \cup { <<Entry(q[1], NoPath, "Modify", c), Entry(q[2], NoPath, "Modify", d)>> :
             q \in { r \in PathSet \X PathSet : r[1] # r[2] },
             c \in Contents \ {ReadFailed}, d \in Contents \ {ReadFailed} }

-----------------------------------------------------------------------------
(* The graph under sequential calls                                        *)

Graph == [nodes |-> nodes, paths |-> paths, ic |-> invalid_connections]

Idle == <<>>

\* The variables of the graph and orchestrator models, the graph's own maps
\* excepted, where they play no part
EngineUntouchedIdle ==
    /\ patched = Idle
    /\ writes = Idle
    /\ panicked = Idle
    /\ calls = Idle
    /\ tasks = Idle
    /\ locks = Idle
    /\ graph0 = Idle
    /\ orch = Idle
    /\ ptasks = Idle
    /\ writes_queue = Idle
    /\ applied = Idle

\* The variables of the debouncer and detector models, where they play no part
UnitIdle ==
    /\ debounced = Idle
    /\ pushed = Idle
    /\ detector = Idle
    /\ regs = Idle
    /\ last = Idle
    /\ batches = Idle
    /\ merged = Idle
    /\ drain = Idle

\* Graph::from_dir: Graph::new, then the creation patch of the directory
from_dir(dir, asc) == process_fs_patch(EmptyGraph, from_events(dir), asc)

Init ==
    /\ \E dir \in Dirs, asc \in BOOLEAN :
         \E r \in {from_dir(dir, asc)} :
            /\ ~r.panic
            /\ nodes = r.nodes
            /\ paths = r.paths
            /\ invalid_connections = r.ic
            /\ writes = r.writes
    /\ panicked = FALSE
    /\ calls = 0
    /\ patched = Idle
    /\ tasks = Idle
    /\ locks = Idle
    /\ graph0 = Idle
    /\ orch = Idle
    /\ ptasks = Idle
    /\ writes_queue = Idle
    /\ applied = Idle
    /\ UnitIdle

\* One call of Graph::process_fs_patch that runs to its end (or to its panic)
\* with no other call in progress.
ProcessFsPatch ==
    /\ calls < MaxCalls
    /\ \E es \in Batches, asc \in BOOLEAN :
         \E r \in {process_fs_patch(Graph, from_events(es), asc)} :
            /\ nodes' = r.nodes
            /\ paths' = r.paths
            /\ invalid_connections' = r.ic
            /\ writes' = r.writes
            /\ panicked' = r.panic
    /\ calls' = calls + 1
    /\ UNCHANGED <<patched, tasks, locks, graph0, orch, ptasks, writes_queue, applied, unitVars>>

Next == ProcessFsPatch

Spec == Init /\ [][Next]_vars

-----------------------------------------------------------------------------
(* What the maps say about a node                                          *)

\* The node id is a key of `nodes`
Live(id) == id \in DOMAIN nodes

\* The parsed node the graph holds for a live id, if its path holds one
HasNode(id) ==
    /\ Live(id)
    /\ nodes[id] \in DOMAIN paths
    /\ paths[nodes[id]].hasdoc
    /\ id \in DOMAIN paths[nodes[id]].document

NodeOf(id) == paths[nodes[id]].document[id]

\* The connections of a live node, and those of them marked (in)valid
Conns(s) == IF HasNode(s) THEN DOMAIN NodeOf(s).conns ELSE {}

ValidConns(s) == { t \in Conns(s) : NodeOf(s).conns[t].valid }

InvalidConns(s) == { t \in Conns(s) : ~NodeOf(s).conns[t].valid }

Backlinks(t) == IF HasNode(t) THEN NodeOf(t).backlinks ELSE {}

\* C2: every id in `nodes` maps to a tracked path whose PathNode lists the id.
C2_NodesPointIntoPaths ==
    \A id \in DOMAIN nodes :
        nodes[id] \in DOMAIN paths /\ id \in paths[nodes[id]].node_ids

\* C3: every id of every tracked document is a key of `nodes` and maps to
\* the path of that document.
C3_DocumentIdsIndexed ==
    \A p \in DOMAIN paths :
        paths[p].hasdoc =>
            \A id \in DOMAIN paths[p].document : Live(id) /\ nodes[id] = p

\* C4: every valid connection s -> t of a live node s has t in `nodes` and s
\* among the backlinks of t.
C4_ValidConnectionsBacklinked ==
    \A s \in DOMAIN nodes : \A t \in ValidConns(s) : Live(t) /\ s \in Backlinks(t)

\* C5: every s recorded in invalid_connections[t] is live and still has an
\* invalid connection to t, and t is not in `nodes`.
C5_InvalidRecordsCurrent ==
    \A t \in DOMAIN invalid_connections : \A s \in invalid_connections[t] :
        Live(s) /\ t \in InvalidConns(s) /\ ~Live(t)

\* C6: invalid_connections holds no empty set, and has an entry for t exactly
\* when some live node has an invalid connection to t.
C6_InvalidEntriesExact ==
    /\ \A t \in DOMAIN invalid_connections : invalid_connections[t] # {}
    /\ \A t \in Ids :
         t \in DOMAIN invalid_connections <=> \E s \in DOMAIN nodes : t \in InvalidConns(s)

\* C7: every invalid connection of a live node s to t has t absent from
\* `nodes` and s recorded in invalid_connections[t].
C7_InvalidConnectionsRecorded ==
    \A s \in DOMAIN nodes : \A t \in InvalidConns(s) :
        /\ ~Live(t)
        /\ t \in DOMAIN invalid_connections
        /\ s \in invalid_connections[t]

-----------------------------------------------------------------------------
(* The locks (tokio::sync::RwLock): fair, first-in first-out                *)

NTasks == 2

Tasks == 1..NTasks

NoTask == 0

\* The RwLock of a PathNode in the paths map
PathLock(p) == "path" \o ToString(p)

\* Graph.nodes, Index.nodes, Graph.paths, Graph.invalid_connections, and the
\* RwLock around each PathNode
LockNames == {"nodes", "index", "paths", "invalid_connections"}
             \cup { PathLock(p) : p \in PathSet }

\* RwLock::new: no writer, no readers, nobody queued
NewLock == [w |-> NoTask, r |-> [t \in Tasks |-> 0], q |-> <<>>]

\* Whether the lock can be given out in mode m ("R" or "W") right now
Free(L, m) ==
    IF m = "W" THEN L.w = NoTask /\ \A t \in Tasks : L.r[t] = 0
    ELSE L.w = NoTask

Take(L, t, m) == IF m = "W" THEN [L EXCEPT !.w = t] ELSE [L EXCEPT !.r[t] = @ + 1]

\* Dropping one guard of task t
Drop(L, t, m) == IF m = "W" THEN [L EXCEPT !.w = NoTask] ELSE [L EXCEPT !.r[t] = @ - 1]

\* Dropping every guard task t holds (the end of a call, or a panic's unwind)
DropAll(lk, t) ==
    [l \in DOMAIN lk |->
        [lk[l] EXCEPT !.w = IF @ = t THEN NoTask ELSE @, !.r[t] = 0]]

\* A task that is not queued gets the lock at once if nobody is queued and
\* the lock is free; a queued task gets it when it heads the queue and the
\* lock is free.
Grantable(lk, t, l, m, waiting) ==
    IF waiting
    THEN lk[l].q # <<>> /\ Head(lk[l].q).t = t /\ Free(lk[l], m)
    ELSE TRUE

\* The outcome of task t asking for (or being handed) lock l in mode m
Acquire(lk, t, l, m, waiting) ==
    IF waiting
    THEN [locks |-> [lk EXCEPT ![l] = Take([@ EXCEPT !.q = Tail(@)], t, m)], got |-> TRUE]
    ELSE IF lk[l].q = <<>> /\ Free(lk[l], m)
    THEN [locks |-> [lk EXCEPT ![l] = Take(@, t, m)], got |-> TRUE]
    ELSE [locks |-> [lk EXCEPT ![l].q = Append(@, [t |-> t, m |-> m])], got |-> FALSE]

\* RwLockWriteGuard::downgrade: the write guard becomes a read guard atomically
Downgrade(L, t) == [L EXCEPT !.w = NoTask, !.r[t] = @ + 1]

-----------------------------------------------------------------------------
(* Concurrent calls on one Graph                                           *)

Call(kind, es, asc, id, path, indexed) ==
    [kind |-> kind, es |-> es, asc |-> asc, id |-> id, path |-> path, indexed |-> indexed]

PatchCall(es) == Call("process_fs_patch", es, TRUE, 0, NoPath, FALSE)

\* The directories the concurrent model starts from
ConcDirs ==
    { <<Entry(1, NoPath, "Create", File(1 :> FileNode("t", LinkTo(2))))>>,
      <<Entry(1, NoPath, "Create", File(1 :> FileNode("t", LinkTo(2)))),
        Entry(2, NoPath, "Create", File(2 :> FileNode("t", NoLinks)))>>,
      <<Entry(1, NoPath, "Create",
              File((1 :> FileNode("t", NoLinks)) @@ (2 :> FileNode("t", LinkTo(1))))),
        Entry(2, NoPath, "Create", File(1 :> FileNode("t", NoLinks)))>> }

\* The event batches of the concurrent process_fs_patch calls
ConcBatches ==
    { <<Entry(2, 1, "None", ReadFailed)>>,
      <<Entry(1, NoPath, "Modify", ReadFailed)>>,
      <<Entry(1, NoPath, "Modify", File(1 :> FileNode("t", NoLinks)))>>,
      <<Entry(1, NoPath, "Modify",
              File((1 :> FileNode("t", NoLinks)) @@ (2 :> FileNode("t", LinkTo(1)))))>>,
      <<Entry(2, NoPath, "Modify", File(2 :> FileNode("u", LinkTo(1))))>>,
      <<Entry(1, NoPath, "Modify", File(2 :> FileNode("t", LinkTo(1))))>>,
      <<Entry(1, NoPath, "Delete", ReadFailed)>> }

\* The calls a task can make: process_fs_patch, or one of the read queries
ConcCalls ==
    { PatchCall(es) : es \in ConcBatches }
    \cup { Call("get_node", <<>>, TRUE, id, NoPath, FALSE) : id \in {1, 2} }
    \cup { Call("nodes", <<>>, TRUE, 0, NoPath, ix) : ix \in BOOLEAN }
    \cup { Call(k, <<>>, TRUE, 0, p, FALSE) : k \in {"errors", "root_id"}, p \in {1} }

NoWant == [l |-> "", m |-> ""]

\* A task that has not made its call yet
IdleTask ==
    [call |-> Call("", <<>>, TRUE, 0, NoPath, FALSE), pc |-> "idle", waiting |-> FALSE,
     want |-> NoWant, updates |-> <<>>, node_updates |-> <<>>, nodes_to_lock |-> {},
     paths_to_write |-> {}, to_lock |-> <<>>, ids |-> <<>>, cur |-> 0,
     seen |-> EmptyFn, writes |-> {}, panic |-> FALSE]

InitConc ==
    /\ \E dir \in ConcDirs :
         \E r \in {from_dir(dir, TRUE)} :
            /\ ~r.panic
            /\ nodes = r.nodes
            /\ paths = r.paths
            /\ invalid_connections = r.ic
            /\ graph0 = [nodes |-> r.nodes, paths |-> r.paths, ic |-> r.ic]
    /\ writes = {}
    /\ panicked = FALSE
    /\ calls = 0
    /\ patched = Idle
    /\ tasks = [t \in Tasks |-> IdleTask]
    /\ locks = [l \in LockNames |-> NewLock]
    /\ orch = Idle
    /\ ptasks = Idle
    /\ writes_queue = Idle
    /\ applied = Idle
    /\ UnitIdle

\* Task t asks for lock l in mode m, or is handed it after queueing; once it
\* holds the guard its record becomes OnGot(record).
Lock(t, l, m, OnGot(_)) ==
    /\ Grantable(locks, t, l, m, tasks[t].waiting)
    /\ \E a \in {Acquire(locks, t, l, m, tasks[t].waiting)} :
         /\ locks' = a.locks
         /\ tasks' = [tasks EXCEPT ![t] =
                        IF a.got
                        THEN OnGot([@ EXCEPT !.waiting = FALSE, !.want = NoWant])
                        ELSE [@ EXCEPT !.waiting = TRUE, !.want = [l |-> l, m |-> m]]]

\* The call of task t ends (by returning or by panicking): every guard drops
Finish(t, panic, ws) ==
    /\ locks' = DropAll(locks, t)
    /\ tasks' = [tasks EXCEPT ![t].pc = "done", ![t].panic = panic, ![t].writes = ws]

Untouched == <<writes, panicked, calls, patched, graph0, orch, ptasks, writes_queue, applied, unitVars>>

\* The first step of each kind of call
FirstPc(call) ==
    CASE call.kind = "process_fs_patch" ->
           IF from_events(call.es).renames = <<>> THEN "diff_lock" ELSE "ren_nodes"
      [] call.kind = "get_node" -> "g_nodes"
      [] call.kind = "nodes" -> "n_list"
      [] OTHER -> "e_paths"

\* A task makes a call
Start ==
    \E t \in Tasks, call \in ConcCalls :
        /\ tasks[t].pc = "idle"
        /\ tasks' = [tasks EXCEPT ![t].call = call, ![t].pc = FirstPc(call),
                                  ![t].cur = call.id]
        /\ UNCHANGED <<graphVars, locks, Untouched>>

\* process_renames: the write locks on nodes, indices and paths, in this order
ProcessRenamesLock ==
    \E t \in Tasks :
        /\ tasks[t].pc \in {"ren_nodes", "ren_index", "ren_paths"}
        /\ CASE tasks[t].pc = "ren_nodes" ->
                  Lock(t, "nodes", "W", LAMBDA r : [r EXCEPT !.pc = "ren_index"])
             [] tasks[t].pc = "ren_index" ->
                  Lock(t, "index", "W", LAMBDA r : [r EXCEPT !.pc = "ren_paths"])
             [] tasks[t].pc = "ren_paths" ->
                  Lock(t, "paths", "W", LAMBDA r : [r EXCEPT !.pc = "ren_apply"])
        /\ UNCHANGED <<graphVars, Untouched>>

\* process_renames: the renames themselves; the guards drop at its end
ProcessRenames ==
    \E t \in Tasks :
        /\ tasks[t].pc = "ren_apply"
        /\ \E r \in {process_renames(Graph, from_events(tasks[t].call.es).renames,
                                     tasks[t].call.asc)} :
             /\ nodes' = r.nodes
             /\ paths' = r.paths
             /\ IF r.panic
                THEN Finish(t, TRUE, {})
                ELSE /\ locks' = DropAll(locks, t)
                     /\ tasks' = [tasks EXCEPT ![t].pc = "diff_lock"]
        /\ UNCHANGED <<invalid_connections, Untouched>>

\* Phase B: the read lock on paths
PhaseBLock ==
    \E t \in Tasks :
        /\ tasks[t].pc = "diff_lock"
        /\ Lock(t, "paths", "R", LAMBDA r : [r EXCEPT !.pc = "diff"])
        /\ UNCHANGED <<graphVars, Untouched>>

\* The first map lock process_updates takes at or after position k of the
\* global order (1 nodes, 2 paths, 3 invalid_connections); write_some locks no
\* index, as PathNode emits no index instruction.
MapLockPc(ups, k) ==
    IF k <= 1 /\ should_lock_nodes(ups) THEN "c_nodes"
    ELSE IF k <= 2 /\ should_lock_paths(ups) THEN "c_paths"
    ELSE IF k <= 3 /\ should_lock_invalid_connections(ups) THEN "c_ic"
    ELSE "stage1"

\* Phase B: the instruction list from the PathNodes as they are now (each
\* read under its own read lock), then drop(paths)
PhaseBDiff ==
    \E t \in Tasks :
        /\ tasks[t].pc = "diff"
        /\ \E patch \in {from_events(tasks[t].call.es)} :
             /\ \A i \in 1..Len(patch.deletions) :
                  locks[PathLock(patch.deletions[i])].w = NoTask
             /\ \A i \in 1..Len(patch.modifications) :
                  locks[PathLock(patch.modifications[i].path)].w = NoTask
             /\ \E ups \in {PhaseB(paths, patch, tasks[t].call.asc)} :
                  tasks' = [tasks EXCEPT ![t].updates = ups, ![t].seen = paths,
                                         ![t].pc = MapLockPc(ups, 1)]
        /\ locks' = [locks EXCEPT !["paths"] = Drop(@, t, "R")]
        /\ UNCHANGED <<graphVars, Untouched>>

\* process_updates: the map write locks it needs, in the global order
MapLocks ==
    \E t \in Tasks :
        /\ tasks[t].pc \in {"c_nodes", "c_paths", "c_ic"}
        /\ CASE tasks[t].pc = "c_nodes" ->
                  Lock(t, "nodes", "W", LAMBDA r : [r EXCEPT !.pc = MapLockPc(r.updates, 2)])
             [] tasks[t].pc = "c_paths" ->
                  Lock(t, "paths", "W", LAMBDA r : [r EXCEPT !.pc = MapLockPc(r.updates, 3)])
             [] tasks[t].pc = "c_ic" ->
                  Lock(t, "invalid_connections", "W", LAMBDA r : [r EXCEPT !.pc = "stage1"])
        /\ UNCHANGED <<graphVars, Untouched>>

\* process_updates, stage 1: the map updates, under the map locks
Stage1Step ==
    \E t \in Tasks :
        /\ tasks[t].pc = "stage1"
        /\ \E s1 \in {Stage1(Graph, tasks[t].updates)} :
             /\ nodes' = s1.nodes
             /\ paths' = s1.paths
             /\ invalid_connections' = s1.ic
             /\ IF s1.panic
                THEN Finish(t, TRUE, {})
                ELSE /\ tasks' = [tasks EXCEPT ![t].node_updates = s1.node_updates,
                                               ![t].nodes_to_lock = s1.nodes_to_lock,
                                               ![t].paths_to_write = s1.paths_to_write,
                                               ![t].pc = "nodes_ref"]
                     /\ UNCHANGED locks
        /\ UNCHANGED Untouched

\* What stage 2 works on: the maps as they are, and the task's own lists
Stage2Input(t) ==
    [nodes |-> nodes, paths |-> paths, ic |-> invalid_connections,
     node_updates |-> tasks[t].node_updates, nodes_to_lock |-> tasks[t].nodes_to_lock,
     paths_to_write |-> tasks[t].paths_to_write, panic |-> FALSE]

\* The task's record once it holds the guards on nodes and paths: the sorted
\* list of PathNodes to lock
WithPathsToLock(t, r) ==
    [r EXCEPT !.pc = "lock_paths", !.to_lock = Iter(paths_to_lock(Stage2Input(t)), TRUE)]

\* process_updates: nodes_ref, by downgrading the write guard on nodes or by
\* taking the read lock
NodesRef ==
    \E t \in Tasks :
        /\ tasks[t].pc = "nodes_ref"
        /\ IF locks["nodes"].w = t
           THEN /\ locks' = [locks EXCEPT !["nodes"] = Downgrade(@, t)]
                /\ tasks' = [tasks EXCEPT ![t].pc = "paths_ref"]
           ELSE Lock(t, "nodes", "R", LAMBDA r : [r EXCEPT !.pc = "paths_ref"])
        /\ UNCHANGED <<graphVars, Untouched>>

\* process_updates: paths_ref, the read lock on paths unless the write guard
\* is held
PathsRef ==
    \E t \in Tasks :
        /\ tasks[t].pc = "paths_ref"
        /\ IF locks["paths"].w = t
           THEN /\ tasks' = [tasks EXCEPT ![t] = WithPathsToLock(t, @)]
                /\ UNCHANGED locks
           ELSE Lock(t, "paths", "R", LAMBDA r : WithPathsToLock(t, r))
        /\ UNCHANGED <<graphVars, Untouched>>

\* process_updates: the write lock on the next PathNode in path order
\* (path_node_getter(path).unwrap() panics on a path the map lacks)
LockPathNodes ==
    \E t \in Tasks :
        /\ tasks[t].pc = "lock_paths"
        /\ tasks[t].to_lock # <<>>
        /\ IF Head(tasks[t].to_lock) \in DOMAIN paths
           THEN Lock(t, PathLock(Head(tasks[t].to_lock)), "W",
                     LAMBDA r : [r EXCEPT !.to_lock = Tail(@)])
           ELSE Finish(t, TRUE, {})
        /\ UNCHANGED <<graphVars, Untouched>>

\* process_updates, stage 2: the node updates and the writes; every guard
\* drops when it returns
Stage2Step ==
    \E t \in Tasks :
        /\ tasks[t].pc = "lock_paths"
        /\ tasks[t].to_lock = <<>>
        /\ \E r \in {Stage2(Stage2Input(t))} :
             /\ nodes' = r.nodes
             /\ paths' = r.paths
             /\ invalid_connections' = r.ic
             /\ Finish(t, r.panic, r.writes)
        /\ UNCHANGED Untouched

\* The other paths get_node read-locks for node id: those of its valid
\* connections and of its backlinks that `nodes` resolves, its own excepted
OtherPaths(id) ==
    LET pn == paths[nodes[id]]
        n == pn.document[id]
        ids == { c \in DOMAIN n.conns : n.conns[c].valid } \cup n.backlinks
    IN IF pn.hasdoc /\ id \in DOMAIN pn.document
       THEN { nodes[x] : x \in ids \cap DOMAIN nodes } \ {nodes[id]}
       ELSE {}

\* get_node returns inside Graph::nodes (whose unwrap() panics on None) or to
\* its caller; its own guards drop, the guard Graph::nodes holds stays
Return(t, found) ==
    IF tasks[t].call.kind = "nodes"
    THEN IF found
         THEN /\ locks' = [l \in LockNames |->
                             IF l = "nodes" THEN Drop(locks[l], t, "R")
                             ELSE [locks[l] EXCEPT !.r[t] = 0]]
              /\ tasks' = [tasks EXCEPT ![t].pc = "n_next"]
         ELSE Finish(t, TRUE, {})
    ELSE Finish(t, FALSE, {})

\* get_node: the read locks on nodes, then paths, then the node's PathNode
\* (paths.get(node_path).unwrap() panics on a path the map lacks)
GetNodeLock ==
    \E t \in Tasks :
        /\ tasks[t].pc \in {"g_nodes", "g_paths", "g_path"}
        /\ CASE tasks[t].pc = "g_nodes" ->
                  Lock(t, "nodes", "R", LAMBDA r : [r EXCEPT !.pc = "g_paths"])
             [] tasks[t].pc = "g_paths" ->
                  IF tasks[t].cur \in DOMAIN nodes
                  THEN Lock(t, "paths", "R", LAMBDA r : [r EXCEPT !.pc = "g_path"])
                  ELSE Return(t, FALSE)
             [] tasks[t].pc = "g_path" ->
                  IF nodes[tasks[t].cur] \in DOMAIN paths
                  THEN Lock(t, PathLock(nodes[tasks[t].cur]), "R",
                            LAMBDA r : [r EXCEPT !.pc = "g_others",
                                                 !.to_lock = Iter(OtherPaths(r.cur), TRUE)])
                  ELSE Finish(t, TRUE, {})
        /\ UNCHANGED <<graphVars, Untouched>>

\* get_node: the read locks on the other PathNodes, in path order, then the
\* node itself
GetNodeRead ==
    \E t \in Tasks :
        /\ tasks[t].pc = "g_others"
        /\ IF tasks[t].to_lock = <<>>
           THEN Return(t, HasNode(tasks[t].cur))
           ELSE IF Head(tasks[t].to_lock) \in DOMAIN paths
           THEN Lock(t, PathLock(Head(tasks[t].to_lock)), "R",
                     LAMBDA r : [r EXCEPT !.to_lock = Tail(@)])
           ELSE Finish(t, TRUE, {})
        /\ UNCHANGED <<graphVars, Untouched>>

\* Graph::nodes: the read lock on the index's map or on nodes, kept while
\* get_node runs for every key
NodesList ==
    \E t \in Tasks :
        /\ tasks[t].pc = "n_list"
        /\ IF tasks[t].call.indexed
           THEN Lock(t, "index", "R", LAMBDA r : [r EXCEPT !.pc = "n_next", !.ids = <<>>])
           ELSE Lock(t, "nodes", "R",
                     LAMBDA r : [r EXCEPT !.pc = "n_next",
                                          !.ids = Iter(DOMAIN nodes, r.call.asc)])
        /\ UNCHANGED <<graphVars, Untouched>>

\* Graph::nodes: the next key, or the end of the list
NodesNext ==
    \E t \in Tasks :
        /\ tasks[t].pc = "n_next"
        /\ IF tasks[t].ids = <<>>
           THEN Finish(t, FALSE, {})
           ELSE /\ tasks' = [tasks EXCEPT ![t].cur = Head(tasks[t].ids),
                                          ![t].ids = Tail(@), ![t].pc = "g_nodes"]
                /\ UNCHANGED locks
        /\ UNCHANGED <<graphVars, Untouched>>

\* Graph::errors and Graph::root_id: the read lock on paths, then on the
\* PathNode if the path is tracked
PathQuery ==
    \E t \in Tasks :
        /\ tasks[t].pc \in {"e_paths", "e_path", "e_read"}
        /\ CASE tasks[t].pc = "e_paths" ->
                  Lock(t, "paths", "R", LAMBDA r : [r EXCEPT !.pc = "e_path"])
             [] tasks[t].pc = "e_path" ->
                  IF tasks[t].call.path \in DOMAIN paths
                  THEN Lock(t, PathLock(tasks[t].call.path), "R",
                            LAMBDA r : [r EXCEPT !.pc = "e_read"])
                  ELSE Finish(t, FALSE, {})
             [] tasks[t].pc = "e_read" -> Finish(t, FALSE, {})
        /\ UNCHANGED <<graphVars, Untouched>>

NextConc ==
    \/ Start
    \/ ProcessRenamesLock
    \/ ProcessRenames
    \/ PhaseBLock
    \/ PhaseBDiff
    \/ MapLocks
    \/ Stage1Step
    \/ NodesRef
    \/ PathsRef
    \/ LockPathNodes
    \/ Stage2Step
    \/ GetNodeLock
    \/ GetNodeRead
    \/ NodesList
    \/ NodesNext
    \/ PathQuery

SpecConc == InitConc /\ [][NextConc]_vars

-----------------------------------------------------------------------------
(* Concurrency properties                                                   *)

\* The tasks that keep a queued task t from its lock: the holders its mode
\* conflicts with, and the tasks queued ahead of it
Blockers(t) ==
    LET L == locks[tasks[t].want.l]
        me == CHOOSE i \in 1..Len(L.q) : L.q[i].t = t
    IN { u \in Tasks : L.w = u }
       \cup (IF tasks[t].want.m = "W" THEN { u \in Tasks : L.r[u] > 0 } ELSE {})
       \cup { L.q[j].t : j \in 1..(me - 1) }

\* A set of tasks each of which waits for a lock that only tasks of the set
\* can let it have
Deadlocked(S) ==
    /\ S # {}
    /\ \A t \in S : tasks[t].waiting /\ Blockers(t) # {} /\ Blockers(t) \subseteq S

\* C1: no reachable state has a set of calls (process_fs_patch, get_node,
\* nodes, errors, root_id) each waiting on a lock held by another of the set.
C1_DeadlockFree == \A S \in SUBSET Tasks : ~Deadlocked(S)

PatchTasks == { t \in Tasks : tasks[t].call.kind = "process_fs_patch" }

RECURSIVE Serial(_, _)
\* The graphs that running the calls of the tasks in S one after another, in
\* some order, leaves
Serial(g, S) ==
    IF S = {} THEN {g}
    ELSE UNION { With(process_fs_patch(g, from_events(tasks[t].call.es), tasks[t].call.asc),
                      LAMBDA r : Serial([nodes |-> r.nodes, paths |-> r.paths, ic |-> r.ic],
                                        S \ {t}))
                 : t \in S }

\* The paths a task's patch has events on
Touched(t) == { tasks[t].call.es[i].path : i \in 1..Len(tasks[t].call.es) }

\* The PathNodes a task's instruction list was computed from are those the
\* list is applied to
AppliedToSeen(t) ==
    \A p \in Touched(t) :
        /\ p \in DOMAIN paths <=> p \in DOMAIN tasks[t].seen
        /\ p \in DOMAIN paths => paths[p] = tasks[t].seen[p]

\* C8: the mutations of concurrent process_fs_patch calls are serialised: a
\* call's instruction list is applied to the PathNode state it was computed
\* from, and once all calls have returned the graph is the one some serial
\* order of the calls gives.
C8_Serialised ==
    /\ \A t \in Tasks : tasks[t].pc = "stage1" => AppliedToSeen(t)
    /\ (\A t \in Tasks : tasks[t].pc = "done") => Graph \in Serial(graph0, PatchTasks)

\* Task t is in get_node for a node the graph holds, past the read guard on
\* the node's own PathNode: from here on it reads the node's connections and
\* backlinks, and looks their ids up in the `nodes` guard it holds.
Reading(t) ==
    /\ tasks[t].call.kind = "get_node"
    /\ tasks[t].pc = "g_others"
    /\ HasNode(tasks[t].cur)

\* C11: a get_node running beside process_fs_patch calls never reads an
\* intermediate state of a patch: every backlink of the node it reads, and
\* every target of a connection of that node marked valid, is a key of the
\* `nodes` map it reads.
C11_ReaderSeesWholePatches ==
    \A t \in Tasks :
        Reading(t) =>
            Backlinks(tasks[t].cur) \cup ValidConns(tasks[t].cur) \subseteq DOMAIN nodes

-----------------------------------------------------------------------------
(* Debouncer (debouncer.rs)                                                *)

\* An Event: Create, Delete or Modify of `path`, or Rename of `path` to `to`
Event(kind, p, to) == [kind |-> kind, path |-> p, to |-> to]

\* Event::with_path on a stored event: kind is its variant ("None" for no
\* event) and at its path
with_path(kind, to) == IF kind = "None" THEN NoPath ELSE to

\* DebouncedEvents::new.  A DebouncedEvents is its `inner` map: new path ->
\* (old path or NoPath, the kind of the stored event or "None", the path that
\* event carries or NoPath).
NewDebouncedEvents == EmptyFn

\* debounce_two, had it let the later event replace the stored one
debounce_two_taking_latest(event_1, event_2, curr_path) ==
    [kind |-> event_2.kind, at |-> IF event_1 = "None" THEN event_2.path ELSE curr_path]

\* debounce_two, had it let a deletion cancel a stored creation
debounce_two_cancelling_create(event_1, event_2, curr_path) ==
    CASE event_1 = "None" -> [kind |-> event_2.kind, at |-> event_2.path]
      [] event_1 = "Create" /\ event_2.kind = "Delete" -> [kind |-> "None", at |-> NoPath]
      [] event_1 = "Create" -> [kind |-> "Create", at |-> curr_path]
      [] OTHER ->
           [kind |-> IF event_2.kind = "Delete" THEN "Delete" ELSE "Modify", at |-> curr_path]

\* debounce_two: the kind and the path of the event it returns
debounce_two(event_1, event_2, curr_path) ==
    CASE event_1 = "None" -> [kind |-> event_2.kind, at |-> event_2.path]
      [] event_1 = "Create" ->
           [kind |-> IF event_2.kind = "Delete" THEN "Delete" ELSE "Create", at |-> curr_path]
      [] event_1 = "Delete" ->
           [kind |-> IF event_2.kind = "Delete" THEN "Delete" ELSE "Modify", at |-> curr_path]
      [] event_1 = "Modify" ->
           [kind |-> IF event_2.kind = "Delete" THEN "Delete" ELSE "Modify", at |-> curr_path]

\* DebouncedEvents::push, had a rename recorded its own `from` as the old path
\* whatever the entry it moves held
push_forgetting_oldest_path(de, ev) ==
    IF ev.kind = "Rename"
    THEN Put(Remove(de, ev.path), ev.to,
             [old |-> ev.path,
              kind |-> IF ev.path \in DOMAIN de THEN de[ev.path].kind ELSE "None",
              at |-> IF ev.path \in DOMAIN de THEN with_path(de[ev.path].kind, ev.to)
                     ELSE NoPath])
    ELSE IF ev.path \in DOMAIN de
         THEN [de EXCEPT ![ev.path].kind =
                           IF @ = "None" THEN ev.kind
                           ELSE IF ev.kind = "Delete" THEN "Delete"
                           ELSE IF @ = "Create" THEN "Create" ELSE "Modify",
                         ![ev.path].at = ev.path]
         ELSE Put(de, ev.path, [old |-> NoPath, kind |-> ev.kind, at |-> ev.path])

\* DebouncedEvents::push
push(de, ev) ==
    IF ev.kind = "Rename"
    THEN IF ev.path \in DOMAIN de
         THEN Put(Remove(de, ev.path), ev.to,
                  [old |-> IF de[ev.path].old = NoPath THEN ev.path ELSE de[ev.path].old,
                   kind |-> de[ev.path].kind,
                   at |-> with_path(de[ev.path].kind, ev.to)])
         ELSE Put(de, ev.to, [old |-> ev.path, kind |-> "None", at |-> NoPath])
    ELSE IF ev.path \in DOMAIN de
         THEN With(debounce_two(de[ev.path].kind, ev, ev.path), LAMBDA e :
                [de EXCEPT ![ev.path].kind = e.kind, ![ev.path].at = e.at])
         ELSE Put(de, ev.path, [old |-> NoPath, kind |-> ev.kind, at |-> ev.path])

RECURSIVE extend_from_sequential(_, _)
\* DebouncedEvents::extend_from_sequential
extend_from_sequential(de, evs) ==
    IF evs = <<>> THEN de ELSE extend_from_sequential(push(de, Head(evs)), Tail(evs))

\* DebouncedEvents::combine: the renames of `other` are pushed as they are
\* met, its other events (as stored, with the path they carry) after them;
\* asc is the order `other` is iterated in.
combine(de, other, asc) ==
    LET ks == Iter(DOMAIN other, asc)
        renamed == SelectSeq(ks, LAMBDA k : other[k].old # NoPath)
        evented == SelectSeq(ks, LAMBDA k : other[k].kind # "None")
        renames == [i \in 1..Len(renamed) |->
                      Event("Rename", other[renamed[i]].old, renamed[i])]
        non_renames == [i \in 1..Len(evented) |->
                          Event(other[evented[i]].kind, other[evented[i]].at, NoPath)]
    IN extend_from_sequential(de, renames \o non_renames)

-----------------------------------------------------------------------------
(* Conflict detector (conflict_detector.rs)                                *)

\* A Write: conflict is "None", "Simple" or "Multi", and multi the paths of a
\* Multi conflict.  The contents of a write play no part in conflict detection.
Write(p, source) == [path |-> p, source |-> source, conflict |-> "None", multi |-> {}]

NewPatchTableEntry == [ref_count |-> 0, events_since |-> NewDebouncedEvents, other_writes |-> {}]

\* ConflictDetector::new
NewConflictDetector ==
    [patch_table |-> (0 :> NewPatchTableEntry), next_patch |-> 0, next_ref_count |-> 0]

\* ConflictDetector::register_update: the detector after it, and the index
register_update(cd) ==
    [cd |-> [cd EXCEPT !.next_ref_count = @ + 1], idx |-> cd.next_patch]

\* add_patch, had it given the new theoretical entry the batch just added
add_patch_seeding_next(cd, events, asc) ==
    LET combined == [k \in DOMAIN cd.patch_table |->
                       [cd.patch_table[k] EXCEPT !.events_since = combine(@, events, asc)]]
        settled == IF cd.next_ref_count = 0
                   THEN Remove(combined, cd.next_patch)
                   ELSE [combined EXCEPT ![cd.next_patch].ref_count = cd.next_ref_count]
    IN [cd |-> [patch_table |-> Put(settled, cd.next_patch + 1,
                                    [NewPatchTableEntry EXCEPT !.events_since = events]),
                next_patch |-> cd.next_patch + 1,
                next_ref_count |-> 1],
        idx |-> cd.next_patch + 1]

\* add_patch, had it left an unreferenced theoretical entry in the table
add_patch_keeping_unreferenced(cd, events, asc) ==
    LET combined == [k \in DOMAIN cd.patch_table |->
                       [cd.patch_table[k] EXCEPT !.events_since = combine(@, events, asc)]]
        settled == [combined EXCEPT ![cd.next_patch].ref_count = cd.next_ref_count]
    IN [cd |-> [patch_table |-> Put(settled, cd.next_patch + 1, NewPatchTableEntry),
                next_patch |-> cd.next_patch + 1,
                next_ref_count |-> 1],
        idx |-> cd.next_patch + 1]

\* ConflictDetector::add_patch: the detector after it, and the index
add_patch(cd, events, asc) ==
    LET combined == [k \in DOMAIN cd.patch_table |->
                       [cd.patch_table[k] EXCEPT !.events_since = combine(@, events, asc)]]
        settled == IF cd.next_ref_count = 0
                   THEN Remove(combined, cd.next_patch)
                   ELSE [combined EXCEPT ![cd.next_patch].ref_count = cd.next_ref_count]
    IN [cd |-> [patch_table |-> Put(settled, cd.next_patch + 1, NewPatchTableEntry),
                next_patch |-> cd.next_patch + 1,
                next_ref_count |-> 1],
        idx |-> cd.next_patch + 1]

\* PathRename::add, had it kept a One whatever path is added to it
PathRenameAdd_keeping_first(self, path) == IF self = {} THEN {path} ELSE self

\* PathRename::add.  A PathRename is the set of its targets: none for None,
\* one for One, several for Many.
PathRenameAdd(self, path) == self \cup {path}

\* The same round, had it left out the event hoisted to the new path of a
\* renamed entry
ConflictTableEntry_without_hoisted_event(ct, new_path, e) ==
    IF e.old # NoPath
    THEN [ct EXCEPT !.table =
            IF e.old \in DOMAIN ct.table
            THEN [ct.table EXCEPT ![e.old].rename = PathRenameAdd(@, new_path)]
            ELSE Put(ct.table, e.old, [rename |-> {new_path}, event |-> "None"])]
    ELSE IF e.kind # "None"
    THEN IF new_path \in DOMAIN ct.table
         THEN [table |-> [ct.table EXCEPT ![new_path].event = e.kind],
               assert |-> ct.assert \/ ct.table[new_path].event # "None"]
         ELSE [ct EXCEPT !.table = Put(@, new_path, [rename |-> {}, event |-> e.kind])]
    ELSE ct

\* One round of the loop that builds conflict_table, for the entry of
\* events_since under new_path; `assert` records a failed debug_assert!, which
\* a release build does not evaluate.
ConflictTableEntry(ct, new_path, e) ==
    IF e.old # NoPath
    THEN LET renamed == IF e.old \in DOMAIN ct.table
                        THEN [ct.table EXCEPT ![e.old].rename = PathRenameAdd(@, new_path)]
                        ELSE Put(ct.table, e.old, [rename |-> {new_path}, event |-> "None"])
         IN IF e.kind # "None"
            THEN [table |-> Put(renamed, new_path, [rename |-> {}, event |-> e.kind]),
                  assert |-> ct.assert \/ new_path \in DOMAIN renamed]
            ELSE [ct EXCEPT !.table = renamed]
    ELSE IF e.kind # "None"
    THEN IF new_path \in DOMAIN ct.table
         THEN [table |-> [ct.table EXCEPT ![new_path].event = e.kind],
               assert |-> ct.assert \/ ct.table[new_path].event # "None"]
         ELSE [ct EXCEPT !.table = Put(@, new_path, [rename |-> {}, event |-> e.kind])]
    ELSE ct

RECURSIVE ConflictTableOf(_, _, _)
ConflictTableOf(ct, events_since, ks) ==
    IF ks = <<>> THEN ct
    ELSE ConflictTableOf(ConflictTableEntry(ct, Head(ks), events_since[Head(ks)]),
                         events_since, Tail(ks))

\* conflict_table of detect_conflicts; asc is the order events_since is
\* iterated in
conflict_table(events_since, asc) ==
    ConflictTableOf([table |-> EmptyFn, assert |-> FALSE], events_since,
                    Iter(DOMAIN events_since, asc))

RECURSIVE ResolveWrite(_, _, _)
\* The `loop` of detect_conflicts for one write: whether the write is kept,
\* the write, and whether the loop never ends (it has gone round more often
\* than the table has keys, so it is in a cycle of One renames).
ResolveWrite(table, write, rounds) ==
    IF write.path \notin DOMAIN table
    THEN [kept |-> TRUE, write |-> write, hang |-> FALSE]
    ELSE LET e == table[write.path]
         IN IF e.rename = {}
            THEN CASE e.event \in {"Create", "Modify"} ->
                        [kept |-> write.source = "Other",
                         write |-> [write EXCEPT !.conflict = "Simple", !.multi = {}],
                         hang |-> FALSE]
                   [] e.event = "Delete" -> [kept |-> FALSE, write |-> write, hang |-> FALSE]
                   [] OTHER -> [kept |-> TRUE, write |-> write, hang |-> FALSE]
            ELSE IF Cardinality(e.rename) = 1
            THEN IF rounds > Cardinality(DOMAIN table)
                 THEN [kept |-> FALSE, write |-> write, hang |-> TRUE]
                 ELSE ResolveWrite(table,
                                   [write EXCEPT !.path = CHOOSE q \in e.rename : TRUE],
                                   rounds + 1)
            ELSE [kept |-> TRUE,
                  write |-> [write EXCEPT !.conflict = "Multi", !.multi = e.rename],
                  hang |-> FALSE]

\* The path of an Other-sourced write that goes through is recorded on every
\* entry of the patch table
RecordOtherWrite(patch_table, path) ==
    [k \in DOMAIN patch_table |-> [patch_table[k] EXCEPT !.other_writes = @ \cup {path}]]

\* ConflictDetector::detect_conflicts on a Vec of writes: the detector after
\* it, the writes it returns, whether it panicked (patch_idx is not in the
\* table), whether it never returns, and whether a debug_assert! failed.
\* A u32 count is held as the integer congruent to it modulo 2^32 that is
\* nearest 0, so a count decremented at 0 (which wraps) is -1.
detect_conflicts(cd, patch_idx, ws, asc) ==
    IF patch_idx \notin DOMAIN cd.patch_table
    THEN [cd |-> cd, writes |-> <<>>, panic |-> TRUE, hang |-> FALSE, assert |-> FALSE]
    ELSE LET ct == conflict_table(cd.patch_table[patch_idx].events_since, asc)
             FilterMap(st, write) ==
                 With(ResolveWrite(ct.table, write, 0), LAMBDA r :
                   IF r.hang THEN [st EXCEPT !.panic = TRUE]
                   ELSE IF ~r.kept THEN st
                   ELSE IF r.write.source = "Other"
                   THEN [st EXCEPT !.table = RecordOtherWrite(@, r.write.path),
                                   !.out = Append(@, r.write)]
                   ELSE IF r.write.path \in st.table[patch_idx].other_writes
                   THEN st
                   ELSE [st EXCEPT !.out = Append(@, r.write)])
             st == Fold(FilterMap, [table |-> cd.patch_table, out |-> <<>>, panic |-> FALSE], ws)
             released ==
                 IF patch_idx = cd.next_patch
                 THEN [cd EXCEPT !.patch_table = st.table,
                                 !.next_ref_count = @ - 1]
                 ELSE LET n == st.table[patch_idx].ref_count - 1
                      IN [cd EXCEPT !.patch_table =
                            IF n = 0 THEN Remove(st.table, patch_idx)
                            ELSE [st.table EXCEPT ![patch_idx].ref_count = n]]
         IN IF st.panic
            THEN [cd |-> [cd EXCEPT !.patch_table = st.table], writes |-> st.out,
                  panic |-> FALSE, hang |-> TRUE, assert |-> ct.assert]
            ELSE [cd |-> released, writes |-> st.out, panic |-> FALSE, hang |-> FALSE,
                  assert |-> ct.assert]

-----------------------------------------------------------------------------
(* The orchestrator (fs_engine.rs)                                         *)

MaxEvents == 2

\* patch_task = None
NoHandle == 0

\* The directories the orchestrator model starts from
EngineDirs ==
    { <<Entry(1, NoPath, "Create", File(1 :> FileNode("t", LinkTo(2))))>> }

\* What rx.recv() yields: Some(Some(event)), Some(None) (the watcher asks for
\* a rescan), or None (the channel is closed)
EngineEvents ==
    { Event("Modify", 1, NoPath), Event("Delete", 1, NoPath), Event("Create", 2, NoPath),
      Event("Rename", 1, 2), Event("Rescan", NoPath, NoPath), Event("Closed", NoPath, NoPath) }

\* What PathPatch::new finds at a path when the patch task reads it: not a
\* file, or a file and the result of reading it
EngineReads ==
    { [is_file |-> FALSE, contents |-> ReadFailed],
      [is_file |-> TRUE, contents |-> File(1 :> FileNode("t", NoLinks))],
      [is_file |-> TRUE, contents |-> File(2 :> FileNode("t", NoLinks))] }

\* The paths of a batch that from_events reads
PathsRead(de) == { p \in DOMAIN de : de[p].kind \in {"Create", "Modify"} }

\* The entries of a batch as from_events meets them, with what it reads: an
\* event on a path PathPatch::new denies gives no patch.
EntriesOf(de, reads, asc) ==
    LET ks == Iter(DOMAIN de, asc)
        E(p) == IF p \in PathsRead(de)
                THEN Entry(p, de[p].old, IF reads[p].is_file THEN de[p].kind ELSE "None",
                           reads[p].contents)
                ELSE Entry(p, de[p].old, de[p].kind, ReadFailed)
    IN [i \in 1..Len(ks) |-> E(ks[i])]

\* The Vec<Write> process_updates returns, in the order its paths_to_write
\* is iterated
WritesOf(ws, asc) ==
    LET ps == Iter({ w.path : w \in ws }, asc)
    IN [i \in 1..Len(ps) |-> Write(ps[i], "Filesystem")]

\* A patch task as the timeout handler spawns it: the outer task is
\* "building" until GraphPatch::from_events has resolved, "final" while the
\* poll that spawns the graph-processing task runs, then "finished";
\* "cancelled" once an abort has taken effect.  inner is the
\* graph-processing task.
NewPatchTask(events) ==
    [events |-> events, patch |-> from_events(<<>>), outer |-> "building",
     aborted |-> FALSE, inner |-> "none"]

\* No event has been received yet
NoRecv == [kind |-> "None", path |-> NoPath, echo |-> FALSE, pushed |-> FALSE,
           handle |-> NoHandle]

\* The number of times p occurs in the sequence ps
Count(ps, p) == Cardinality({ i \in 1..Len(ps) : ps[i] = p })

\* FsEngine::new on the graph and the writes of Graph::from_dir, and the
\* locals of FsEngine::run before its loop.  echoes counts, per path, the
\* writes of the engine whose Modify event the watcher has yet to deliver,
\* and recv is the event received last: whether it was such an echo, whether
\* it was pushed onto the batch, and the patch task handle held before it.
InitEngine ==
    /\ \E dir \in EngineDirs :
         \E r \in {from_dir(dir, TRUE)} :
            /\ ~r.panic
            /\ nodes = r.nodes
            /\ paths = r.paths
            /\ invalid_connections = r.ic
            /\ \E u \in {register_update(NewConflictDetector)} :
                 /\ orch = [conflict_detector |-> u.cd, patch_task |-> NoHandle,
                            self_writes |-> {}, debounced_events |-> NewDebouncedEvents,
                            events |-> 0, status |-> "running",
                            echoes |-> [p \in PathSet |-> 0], recv |-> NoRecv]
                 /\ writes_queue = <<[writes |-> WritesOf(r.writes, TRUE), patch_idx |-> u.idx]>>
    /\ ptasks = EmptyFn
    /\ applied = <<>>
    /\ writes = {}
    /\ panicked = FALSE
    /\ calls = 0
    /\ patched = Idle
    /\ tasks = Idle
    /\ locks = Idle
    /\ graph0 = Idle
    /\ UnitIdle

RECURSIVE Drain(_, _)
\* The loop `while let Some(..) = self.writes_queue.pop()` of the timeout
\* handler: st holds the detector, the queue, local_self_writes, and the
\* paths of the writes made (written), those writes with the patch index
\* they were queued under (made), and the status ("panicked" or "hung" if
\* detect_conflicts does not return).
Drain(st, asc) ==
    IF st.queue = <<>> \/ st.status # "running" THEN st
    ELSE With(detect_conflicts(st.cd, Head(st.queue).patch_idx, Head(st.queue).writes, asc),
              LAMBDA r :
                Drain([cd |-> r.cd,
                       queue |-> Tail(st.queue),
                       local_self_writes |->
                          st.local_self_writes
                          \cup { r.writes[i].path :
                                   i \in { j \in 1..Len(r.writes) :
                                             r.writes[j].conflict = "None" } },
                       written |->
                          st.written
                          \o [i \in 1..Len(SelectSeq(r.writes,
                                                     LAMBDA w : w.conflict = "None")) |->
                                SelectSeq(r.writes, LAMBDA w : w.conflict = "None")[i].path],
                       made |->
                          st.made
                          \o [i \in 1..Len(SelectSeq(r.writes,
                                                     LAMBDA w : w.conflict = "None")) |->
                                [path |-> SelectSeq(r.writes,
                                                    LAMBDA w : w.conflict = "None")[i].path,
                                 patch_idx |-> Head(st.queue).patch_idx]],
                       status |-> IF r.panic THEN "panicked"
                                  ELSE IF r.hang THEN "hung" ELSE "running"],
                      asc))

EngineUntouched == <<writes, panicked, calls, patched, tasks, locks, graph0, unitVars>>

\* The sleep branch of the select!: with no patch task, add_patch and the
\* spawn of a patch task on a clone of the accumulated batch; then the drain
\* of the writes queue through the conflict detector, the writes to disk, and
\* the record of the paths written.
Timeout ==
    /\ orch.status = "running"
    /\ \E asc \in BOOLEAN :
         LET start == orch.patch_task = NoHandle
             a == add_patch(orch.conflict_detector, orch.debounced_events, asc)
         IN \E d \in {Drain([cd |-> IF start THEN a.cd ELSE orch.conflict_detector,
                             queue |-> writes_queue, local_self_writes |-> {},
                             written |-> <<>>, made |-> <<>>, status |-> "running"],
                            asc)} :
              /\ orch' = [orch EXCEPT
                            !.conflict_detector = d.cd,
                            !.patch_task = IF start THEN a.idx ELSE @,
                            !.self_writes = IF d.status = "running"
                                            THEN @ \cup d.local_self_writes ELSE @,
                            !.echoes = IF d.status = "running"
                                       THEN [p \in PathSet |-> @[p] + Count(d.written, p)]
                                       ELSE @,
                            !.status = d.status]
              /\ ptasks' = IF start
                           THEN Put(ptasks, a.idx, NewPatchTask(orch.debounced_events))
                           ELSE ptasks
              /\ writes_queue' = d.queue
    /\ UNCHANGED <<graphVars, applied, EngineUntouched>>

\* The rx.recv() branch of the select!: the patch task's handle is taken, and
\* the batch reset if the task is finished, the task aborted if not (an abort
\* stops a task that is suspended; a task in its last poll runs on to its
\* end); then the event is debounced into the batch, unless it is the
\* modification of a path the engine has just written.  The event is one
\* of EngineEvents, or the Modify the watcher reports for a write of the
\* engine (echo).
RecvEvent ==
    /\ orch.status = "running"
    /\ orch.events < MaxEvents
    /\ \E echo \in BOOLEAN :
       \E ev \in IF echo
                 THEN { Event("Modify", p, NoPath) : p \in { q \in PathSet : orch.echoes[q] > 0 } }
                 ELSE EngineEvents :
         LET h == orch.patch_task
             finished == h # NoHandle /\ ptasks[h].outer = "finished"
             kept == IF finished THEN NewDebouncedEvents ELSE orch.debounced_events
             none == ev.kind \in {"Rescan", "Closed"}
             self_write == ~none /\ ev.path \in orch.self_writes
         IN /\ ptasks' = IF h # NoHandle /\ ~finished
                         THEN [ptasks EXCEPT ![h].aborted = TRUE,
                                             ![h].outer = IF @ = "building"
                                                          THEN "cancelled" ELSE @]
                         ELSE ptasks
            /\ orch' = [orch EXCEPT
                          !.patch_task = NoHandle,
                          !.events = @ + 1,
                          !.status = CASE ev.kind = "Closed" -> "stopped"
                                       [] ev.kind = "Rescan" -> "panicked"
                                       [] OTHER -> "running",
                          !.self_writes = IF self_write THEN @ \ {ev.path} ELSE @,
                          !.debounced_events =
                              IF none \/ (self_write /\ ev.kind = "Modify")
                              THEN kept ELSE push(kept, ev),
                          !.echoes = IF echo THEN [@ EXCEPT ![ev.path] = @ - 1] ELSE @,
                          !.recv = [kind |-> ev.kind, path |-> ev.path, echo |-> echo,
                                    pushed |-> ~none /\ ~(self_write /\ ev.kind = "Modify"),
                                    handle |-> h]]
    /\ UNCHANGED <<graphVars, writes_queue, applied, EngineUntouched>>

\* The patch task until GraphPatch::from_events has resolved: the files of
\* the batch's creations and modifications are read
OuterResolve ==
    /\ \E k \in DOMAIN ptasks :
         /\ ptasks[k].outer = "building"
         /\ \E asc \in BOOLEAN, reads \in [PathsRead(ptasks[k].events) -> EngineReads] :
              ptasks' = [ptasks EXCEPT
                           ![k].outer = "final",
                           ![k].patch = from_events(EntriesOf(ptasks[k].events, reads, asc))]
    /\ UNCHANGED <<graphVars, orch, writes_queue, applied, EngineUntouched>>

\* The rest of the patch task: tokio::spawn of the graph-processing task
OuterFinish ==
    /\ \E k \in DOMAIN ptasks :
         /\ ptasks[k].outer = "final"
         /\ ptasks' = [ptasks EXCEPT ![k].outer = "finished", ![k].inner = "spawned"]
    /\ UNCHANGED <<graphVars, orch, writes_queue, applied, EngineUntouched>>

\* The graph-processing task: process_fs_patch and the push of its writes.
\* The call runs here with no other call in progress; the interleavings of
\* concurrent calls are those of SpecConc.
GraphProcessing ==
    /\ \E k \in DOMAIN ptasks :
         /\ ptasks[k].inner = "spawned"
         /\ \E asc \in BOOLEAN :
              \E r \in {process_fs_patch(Graph, ptasks[k].patch, asc)} :
                 /\ nodes' = r.nodes
                 /\ paths' = r.paths
                 /\ invalid_connections' = r.ic
                 /\ writes' = r.writes
                 /\ panicked' = r.panic
                 /\ writes_queue' =
                        IF r.panic THEN writes_queue
                        ELSE Append(writes_queue,
                                    [writes |-> WritesOf(r.writes, asc), patch_idx |-> k])
                 /\ ptasks' = [ptasks EXCEPT ![k].inner = IF r.panic THEN "panicked" ELSE "done"]
         /\ applied' = Append(applied, k)
    /\ UNCHANGED <<orch, calls, patched, tasks, locks, graph0, unitVars>>

NextEngine ==
    \/ Timeout
    \/ RecvEvent
    \/ OuterResolve
    \/ OuterFinish
    \/ GraphProcessing

SpecEngine == InitEngine /\ [][NextEngine]_vars

-----------------------------------------------------------------------------
(* Orchestrator properties                                                  *)

\* The patches whose batch holds an event or a rename
NonEmpty(k) == ptasks[k].events # NewDebouncedEvents

\* C9: patches are applied to the graph in the order of their add_patch
\* calls: a patch whose process_fs_patch ran before another's has the smaller
\* patch index.
C9_AppliedInAddPatchOrder ==
    \A i, j \in 1..Len(applied) :
        (i < j /\ NonEmpty(applied[i]) /\ NonEmpty(applied[j])) => applied[i] < applied[j]

RECURSIVE PushedOnto(_, _)
\* The batches that pushing up to n events onto the batch de gives
PushedOnto(de, n) ==
    IF n = 0 THEN {de}
    ELSE {de} \cup UNION { PushedOnto(push(de, ev), n - 1) :
                             ev \in { e \in EngineEvents : e.kind \notin {"Rescan", "Closed"} } }

\* C10: the batch of a patch task the orchestrator aborted is never applied
\* to the graph by that task (its graph-processing task is never spawned),
\* and until the next patch starts the accumulating batch is that batch with
\* the later events pushed onto it.
C10_AbortedNeverApplied ==
    \A k \in DOMAIN ptasks :
        ptasks[k].aborted =>
            /\ ptasks[k].inner = "none"
            /\ \A i \in 1..Len(applied) : applied[i] # k
            /\ (orch.patch_task = NoHandle /\ k + 1 \notin DOMAIN ptasks)
                 => orch.debounced_events \in PushedOnto(ptasks[k].events, MaxEvents)

\* C23: self-write suppression happens once per write of the engine: a
\* Modify received is kept from the accumulating batch if it is the echo of a
\* write of the engine, and is pushed onto the batch if it is not.
C23_SelfWriteSuppressedOnce ==
    orch.recv.kind = "Modify" => (orch.recv.pushed <=> ~orch.recv.echo)

\* C24: receiving the echo of a write of the engine, which is kept from the
\* batch, leaves the patch task handle, the patch tasks and the accumulating
\* batch as they were; and while that echo is the last event received, with
\* a patch task handle held before it, no timeout calls add_patch or spawns a
\* patch task.
C24_EchoStartsNoPatch ==
    /\ [][(orch'.events = orch.events + 1 /\ orch'.recv.echo /\ ~orch'.recv.pushed)
            => /\ orch'.patch_task = orch.patch_task
               /\ ptasks' = ptasks
               /\ orch'.debounced_events = orch.debounced_events]_vars
    /\ [][(orch.recv.echo /\ ~orch.recv.pushed /\ orch.recv.handle # NoHandle)
            => /\ orch'.conflict_detector.next_patch = orch.conflict_detector.next_patch
               /\ DOMAIN ptasks' = DOMAIN ptasks]_vars

-----------------------------------------------------------------------------
(* The conflict detector under any sequence of calls                       *)

DetPaths == {1, 2, 3}

MaxPatches == 2

MaxRegs == 1

MaxDetects == 2

\* The event sequences the watcher delivers between two add_patch calls
DetEvents ==
    { <<Event("Modify", 1, NoPath)>>,
      <<Event("Delete", 1, NoPath)>>,
      <<Event("Create", 2, NoPath)>>,
      <<Event("Rename", 1, 2)>>,
      <<Event("Rename", 2, 3)>>,
      <<Event("Rename", 1, 3), Event("Modify", 3, NoPath)>>,
      <<Event("Rename", 1, 2), Event("Create", 1, NoPath)>>,
      <<Event("Rename", 1, 2), Event("Create", 1, NoPath), Event("Rename", 1, 3)>>,
      <<Event("Rename", 2, 3), Event("Rename", 1, 2)>>,
      <<Event("Rename", 1, 2), Event("Rename", 2, 1)>> }

\* The Vec<Write> arguments of detect_conflicts
DetWrites ==
    { <<Write(p, source)>> : p \in DetPaths, source \in {"Filesystem", "Other"} }
    \cup { <<Write(1, "Other"), Write(1, "Filesystem")>>,
           <<[Write(2, "Other") EXCEPT !.conflict = "Simple"]>> }

\* No detect_conflicts call has been made
NoCall == [made |-> 0, panic |-> FALSE, hang |-> FALSE]

\* The orders a HashMap with these keys can be iterated in
Orders(de) == IF Cardinality(DOMAIN de) > 1 THEN BOOLEAN ELSE {TRUE}

RECURSIVE Sum(_, _)
Sum(f, S) == IF S = {} THEN 0 ELSE LET x == CHOOSE y \in S : TRUE IN f[x] + Sum(f, S \ {x})

\* What the callers of the detector keep about patch index k: the number of
\* register_update calls that returned k, the
\* registrations on k not yet matched by a detect_conflicts call, the
\* batches given to add_patch since k was issued (with the order each was
\* iterated in) and their events in order of arrival, and the paths of the
\* Other-sourced writes returned while k was in the patch table.
NewReg(n) ==
    [registered |-> 0, outstanding |-> n, since |-> <<>>, raw |-> <<>>, others |-> {}]

InitDet ==
    /\ detector = NewConflictDetector
    /\ regs = (0 :> NewReg(0))
    /\ last = NoCall
    /\ debounced = Idle
    /\ pushed = Idle
    /\ batches = Idle
    /\ merged = Idle
    /\ drain = Idle
    /\ nodes = Idle
    /\ paths = Idle
    /\ invalid_connections = Idle
    /\ EngineUntouchedIdle

\* Nothing can be called on a detector whose detect_conflicts panicked or
\* does not return
Callable == ~last.panic /\ ~last.hang

DetUntouched ==
    <<graphVars, writes, panicked, calls, patched, tasks, locks, graph0, orch, ptasks,
      writes_queue,
      applied, debounced, pushed, batches, merged, drain>>

\* A caller registers an update
RegisterUpdate ==
    /\ Callable
    /\ Sum([k \in DOMAIN regs |-> regs[k].registered], DOMAIN regs) < MaxRegs
    /\ \E u \in {register_update(detector)} :
         /\ detector' = u.cd
         /\ regs' = [regs EXCEPT ![u.idx].registered = @ + 1, ![u.idx].outstanding = @ + 1]
    /\ UNCHANGED <<last, DetUntouched>>

\* The orchestrator adds the batch debounced from the events evs
AddPatch ==
    /\ Callable
    /\ detector.next_patch < MaxPatches
    /\ \E evs \in DetEvents :
         \E batch \in {extend_from_sequential(NewDebouncedEvents, evs)} :
            \E asc \in Orders(batch) : \E a \in {add_patch(detector, batch, asc)} :
               /\ detector' = a.cd
               /\ regs' = Put([k \in DOMAIN regs |->
                                [regs[k] EXCEPT
                                   !.since = Append(@, [events |-> batch, asc |-> asc]),
                                   !.raw = @ \o evs]],
                              a.idx, NewReg(1))
    /\ UNCHANGED <<last, DetUntouched>>

\* The paths of the Other-sourced writes among ws
WrittenByOthers(ws) == { ws[i].path : i \in { j \in 1..Len(ws) : ws[j].source = "Other" } }

\* A caller that registered on k has its writes checked
DetectConflicts ==
    /\ Callable
    /\ last.made < MaxDetects
    /\ \E k \in DOMAIN regs, ws \in DetWrites :
         /\ regs[k].outstanding > 0
         /\ \E asc \in IF k \in DOMAIN detector.patch_table
                        THEN Orders(detector.patch_table[k].events_since) ELSE {TRUE} :
            \E r \in {detect_conflicts(detector, k, ws, asc)} :
              /\ detector' = r.cd
              /\ regs' = [j \in DOMAIN regs |->
                            [regs[j] EXCEPT
                               !.outstanding = IF j = k /\ ~r.panic /\ ~r.hang
                                                THEN @ - 1 ELSE @,
                               !.others = IF j \in DOMAIN detector.patch_table
                                          THEN @ \cup WrittenByOthers(r.writes) ELSE @]]
              /\ last' = [made |-> last.made + 1, idx |-> k, writes |-> ws, returned |-> r.writes,
                          panic |-> r.panic, hang |-> r.hang, assert |-> r.assert,
                          reg |-> regs[k], asc |-> asc,
                          resolved |->
                            IF k \in DOMAIN detector.patch_table
                            THEN With(conflict_table(detector.patch_table[k].events_since,
                                                     asc).table,
                                      LAMBDA t : [i \in 1..Len(ws) |->
                                                    ResolveWrite(t, ws[i], 0)])
                            ELSE <<>>,
                          events_since |-> IF k \in DOMAIN detector.patch_table
                                           THEN detector.patch_table[k].events_since
                                           ELSE NewDebouncedEvents]
    /\ UNCHANGED DetUntouched

NextDet ==
    \/ RegisterUpdate
    \/ AddPatch
    \/ DetectConflicts

SpecDet == InitDet /\ [][NextDet]_vars

-----------------------------------------------------------------------------
(* Conflict detector properties                                            *)

RECURSIVE CombineAll(_, _)
\* The batches of `since` combined in turn into de
CombineAll(de, since) ==
    IF since = <<>> THEN de
    ELSE CombineAll(combine(de, Head(since).events, Head(since).asc), Tail(since))

\* The writes of ws as a set
Range(ws) == { ws[i] : i \in 1..Len(ws) }

\* C12: the events detect_conflicts(k, ..) checks writes against are the
\* batches given to add_patch after k was issued, combined in the order they
\* were added, and no batch added earlier: every entry of the patch table
\* holds exactly that combination, a call made under k read exactly it, and a
\* call under a k no batch has followed returns every Other-sourced write and
\* changes none.
C12_EventsSinceAreLaterBatches ==
    /\ \A k \in DOMAIN detector.patch_table :
          detector.patch_table[k].events_since = CombineAll(NewDebouncedEvents, regs[k].since)
    /\ (last.made > 0 /\ ~last.panic) =>
          /\ last.events_since = CombineAll(NewDebouncedEvents, last.reg.since)
          /\ last.reg.since = <<>> =>
                /\ Range(last.returned) \subseteq Range(last.writes)
                /\ \A w \in Range(last.writes) : w.source = "Other" => w \in Range(last.returned)

\* A call under index 1 after a second batch: the first batch, whose
\* add_patch returned 1, is not checked against and the second is, and it
\* changed what the call returned
C12_Witness ==
    /\ last.made > 0
    /\ last.idx = 1
    /\ Len(last.reg.since) = 1
    /\ Len(regs[0].since) = 2
    /\ last.reg.raw # regs[0].raw
    /\ last.returned # last.writes

\* The paths events_since records p as renamed to
RenamedTo(de, p) == { q \in DOMAIN de : de[q].old = p }

\* Whether events_since resolves p in at most one step, to a path that is
\* itself not renamed further
Settled(de, p) ==
    \/ RenamedTo(de, p) = {}
    \/ /\ Cardinality(RenamedTo(de, p)) = 1
       /\ \A q \in RenamedTo(de, p) : q # p /\ RenamedTo(de, q) = {}
       /\ ~(p \in DOMAIN de /\ de[p].old # NoPath /\ de[p].kind # "None")

\* The path a settled p resolves to, and the event recorded on it
ResolvedPath(de, p) == IF RenamedTo(de, p) = {} THEN p ELSE CHOOSE q \in RenamedTo(de, p) : TRUE

TerminalEvent(de, p) ==
    IF ResolvedPath(de, p) \in DOMAIN de THEN de[ResolvedPath(de, p)].kind ELSE "None"

\* What the event on the resolved path makes of write w
Judged(de, w) ==
    LET ev == TerminalEvent(de, w.path)
        moved == [w EXCEPT !.path = ResolvedPath(de, w.path)]
    IN CASE ev = "Delete" -> <<>>
         [] ev \in {"Create", "Modify"} ->
              IF w.source = "Filesystem" THEN <<>>
              ELSE <<[moved EXCEPT !.conflict = "Simple", !.multi = {}]>>
         [] OTHER -> <<moved>>

\* The outcome of the loop of detect_conflicts for one write, as the writes
\* it lets through
Outcome(r) == IF r.kept THEN <<r.write>> ELSE <<>>

RECURSIVE Moves(_, _, _)
\* What the events evs do to the files: fs maps each path to the file it holds
\* (p for the file that was at p before evs, NoPath for none, -n for a file
\* first seen at the n-th event), and moved collects, for every rename, the
\* path renamed and the file it moved.
Moves(st, evs, n) ==
    IF evs = <<>> THEN st
    ELSE LET e == Head(evs)
             fs == st.fs
             file == IF fs[e.path] = NoPath THEN 0 - n ELSE fs[e.path]
         IN Moves(CASE e.kind = "Rename" ->
                         [fs |-> [fs EXCEPT ![e.to] = file, ![e.path] = NoPath],
                          moved |-> st.moved \cup {<<e.path, file>>}]
                    [] e.kind = "Delete" -> [st EXCEPT !.fs[e.path] = NoPath]
                    [] e.kind = "Create" -> [st EXCEPT !.fs[e.path] = 0 - n]
                    [] OTHER -> [st EXCEPT !.fs[e.path] = file],
                  Tail(evs), n + 1)

MovesOf(evs) == Moves([fs |-> [p \in DetPaths |-> p], moved |-> {}], evs, 1)

\* The paths that hold, after evs, the file that was at p before them
Where(p, evs) == { q \in DetPaths : MovesOf(evs).fs[q] = p }

\* The file at p was renamed by evs, no other file was renamed from p, and the
\* file still exists
RenamedAlone(p, evs) ==
    /\ <<p, p>> \in MovesOf(evs).moved
    /\ \A m \in MovesOf(evs).moved : m[1] = p => m[2] = p
    /\ Where(p, evs) # {}

\* C14: a write to path p, where the file at p has since been renamed
\* (through any chain of renames) and no other file was renamed from p, is
\* resolved to the path q that file is at now, without a Multi conflict,
\* also when p was recreated; and no write that is let through is moved to a
\* path holding another file than the one that was at its path.
C14_RenamedWriteFollowsFile ==
    (last.made > 0 /\ ~last.panic) =>
        \A i \in 1..Len(last.writes) :
            LET p == last.writes[i].path
                r == last.resolved[i]
            IN /\ RenamedAlone(p, last.reg.raw) =>
                     /\ ~r.hang
                     /\ {r.write.path} = Where(p, last.reg.raw)
                     /\ r.write.conflict # "Multi"
               /\ (~r.hang /\ r.kept /\ r.write.path # p) =>
                     {r.write.path} = Where(p, last.reg.raw)

\* The paths the events evs rename p to
Dests(p, evs) == { evs[i].to : i \in { j \in 1..Len(evs) : evs[j].kind = "Rename"
                                                             /\ evs[j].path = p } }

\* p was renamed by evs to several paths (so it was recreated in between),
\* none of which was renamed on, and nothing was renamed onto p
RenamedApart(p, evs) ==
    /\ Cardinality(Dests(p, evs)) > 1
    /\ \A i \in 1..Len(evs) :
          evs[i].kind = "Rename" => evs[i].path \notin Dests(p, evs) /\ evs[i].to # p

C16_OtherWritesShadowFilesystem ==
    (last.made > 0 /\ ~last.panic /\ ~last.hang /\ Len(last.writes) = 1) =>
        LET w == last.writes[1]
        IN w.source = "Filesystem" =>
              /\ w.path \in last.reg.others => last.returned = <<>>
              /\ {w.path, last.resolved[1].write.path} \cap last.reg.others = {} =>
                    last.returned = Outcome(last.resolved[1])

\* What does hold of the filter: a Filesystem-sourced write is dropped by it
\* exactly if the path the loop resolved it to is one an Other-sourced write
\* was returned for while its index was in the patch table.
ResolvedPathShadowed ==
    (last.made > 0 /\ ~last.panic /\ ~last.hang /\ Len(last.writes) = 1) =>
        (last.writes[1].source = "Filesystem" =>
            last.returned = IF last.resolved[1].write.path \in last.reg.others
                            THEN <<>> ELSE Outcome(last.resolved[1]))

\* C17: the keys of patch_table are next_patch and the indices below it with
\* a registration not yet matched by a detect_conflicts call, so a call under
\* an index with an outstanding registration never panics.
C17_TableKeysAreOutstanding ==
    /\ DOMAIN detector.patch_table =
          {detector.next_patch}
          \cup { k \in DOMAIN regs : k < detector.next_patch /\ regs[k].outstanding > 0 }
    /\ ~last.panic

\* The last registration on an index below next_patch was matched and its
\* entry removed, while another index below next_patch is still registered
C17_Witness ==
    /\ last.made > 0
    /\ last.idx < detector.next_patch
    /\ last.idx \notin DOMAIN detector.patch_table
    /\ \E k \in DOMAIN detector.patch_table : k < detector.next_patch

-----------------------------------------------------------------------------
(* The debouncer under any sequence of events                              *)

MaxPushed == 4

\* The events the watcher can deliver about the paths of DetPaths
DebEvents ==
    { Event(kind, p, NoPath) : kind \in {"Create", "Delete", "Modify"}, p \in DetPaths }
    \cup { Event("Rename", r[1], r[2]) : r \in { q \in DetPaths \X DetPaths : q[1] # q[2] } }

InitDeb ==
    /\ debounced = NewDebouncedEvents
    /\ pushed = <<>>
    /\ detector = Idle
    /\ regs = Idle
    /\ last = Idle
    /\ batches = Idle
    /\ merged = Idle
    /\ drain = Idle
    /\ nodes = Idle
    /\ paths = Idle
    /\ invalid_connections = Idle
    /\ EngineUntouchedIdle

DebUntouched ==
    <<graphVars, writes, panicked, calls, patched, tasks, locks, graph0, orch, ptasks,
      writes_queue,
      applied, detector, regs, last, batches, merged, drain>>

\* The next event of the sequence is pushed
Push ==
    /\ Len(pushed) < MaxPushed
    /\ \E ev \in DebEvents :
         /\ debounced' = push(debounced, ev)
         /\ pushed' = Append(pushed, ev)
    /\ UNCHANGED DebUntouched

NextDeb == Push

SpecDeb == InitDeb /\ [][NextDeb]_vars

-----------------------------------------------------------------------------
(* Debouncer properties                                                    *)

\* The table of debouncer rules: the stored event, then the event pushed
DebounceTable ==
    [Create |-> [Create |-> "Create", Modify |-> "Create", Delete |-> "Delete"],
     Modify |-> [Create |-> "Modify", Modify |-> "Modify", Delete |-> "Delete"],
     Delete |-> [Create |-> "Modify", Modify |-> "Modify", Delete |-> "Delete"]]

\* C18: when a Create, Modify or Delete is pushed for a path whose entry
\* already stores an event, the entry stores afterwards the one event the
\* table gives for the two, carrying that path, and nothing else of the batch
\* changes; and at all times every entry stores no event or one Create,
\* Modify or Delete carrying the entry's key.
C18_DebounceTable ==
    /\ [](\A p \in DOMAIN debounced :
            \/ debounced[p].kind = "None" /\ debounced[p].at = NoPath
            \/ debounced[p].kind \in {"Create", "Modify", "Delete"} /\ debounced[p].at = p)
    /\ [][\A ev \in DebEvents :
            (/\ pushed' = Append(pushed, ev)
             /\ ev.kind # "Rename"
             /\ ev.path \in DOMAIN debounced
             /\ debounced[ev.path].kind # "None")
            => debounced' = [debounced EXCEPT
                              ![ev.path].kind = DebounceTable[@][ev.kind],
                              ![ev.path].at = ev.path]]_vars

\* A deletion, a rename of the deleted path and a creation at the new path
\* have debounced to a modification there
C18_Witness ==
    /\ pushed = <<Event("Delete", 1, NoPath), Event("Rename", 1, 2), Event("Create", 2, NoPath)>>
    /\ debounced = (2 :> [old |-> 1, kind |-> "Modify", at |-> 2])

RECURSIVE Files(_, _)
\* The files the events evs are about, by the path each is at after them:
\* `first` is the path the file was at when the first event about it came and
\* `renamed` whether it has been renamed since.  fs holds the files so far.
Files(fs, evs) ==
    IF evs = <<>> THEN fs
    ELSE LET ev == Head(evs)
             known == ev.path \in DOMAIN fs
         IN Files(IF ev.kind = "Rename"
                  THEN Put(Remove(fs, ev.path), ev.to,
                           [first |-> IF known THEN fs[ev.path].first ELSE ev.path,
                            renamed |-> TRUE])
                  ELSE IF known THEN fs
                  ELSE Put(fs, ev.path, [first |-> ev.path, renamed |-> FALSE]),
                  Tail(evs))

\* C19: the batch holds exactly one entry for each file the events were
\* about, under the path the file is at after the last of them; the entry of
\* a file that was renamed holds as old path the path the file was at before
\* the first of its renames (and the entry of any other file none), and the
\* event an entry stores carries the entry's key.  No entry is left under a
\* path a file was renamed away from, unless a later event was about that
\* path.
C19_RenameChainsCollapse ==
    LET fs == Files(EmptyFn, pushed)
    IN /\ DOMAIN debounced = DOMAIN fs
       /\ \A p \in DOMAIN debounced :
            /\ debounced[p].old = IF fs[p].renamed THEN fs[p].first ELSE NoPath
            /\ debounced[p].kind # "None" => debounced[p].at = p

\* A file renamed from 1 to 2, modified there and renamed on to 3
C19_Witness ==
    /\ pushed = <<Event("Rename", 1, 2), Event("Modify", 2, NoPath), Event("Rename", 2, 3)>>
    /\ debounced = (3 :> [old |-> 1, kind |-> "Modify", at |-> 3])

RECURSIVE ChainEnd(_, _)
\* The path a file at x is at after the events evs, if they are renames of
\* that file one after the other, and NoPath if they are not
ChainEnd(evs, x) ==
    IF evs = <<>> THEN x
    ELSE IF Head(evs).kind = "Rename" /\ Head(evs).path = x
         THEN ChainEnd(Tail(evs), Head(evs).to)
         ELSE NoPath

\* The events from the i-th to the j-th pushed
Pushed(i, j) == SubSeq(pushed, i, j)

\* C20: after Create(x), renames of the file created and Delete of the path
\* it was renamed to, the batch is one entry under that path, storing Delete
\* and holding x as old path (no old path when there was no rename: the key
\* is x then); after a Delete(x) following these, the batch holds that entry
\* and a second one under x, storing Delete with no old path.
C20_CreateRenameDeleteKept ==
    LET n == Len(pushed)
        Deleted(f, old) == [old |-> old, kind |-> "Delete", at |-> f]
    IN /\ (/\ n >= 2
            /\ pushed[1].kind = "Create"
            /\ pushed[n].kind = "Delete"
            /\ ChainEnd(Pushed(2, n - 1), pushed[1].path) = pushed[n].path)
           => debounced = (pushed[n].path :>
                             Deleted(pushed[n].path,
                                     IF n > 2 THEN pushed[1].path ELSE NoPath))
       /\ (/\ n >= 4
            /\ pushed[1].kind = "Create"
            /\ pushed[n - 1].kind = "Delete"
            /\ ChainEnd(Pushed(2, n - 2), pushed[1].path) = pushed[n - 1].path
            /\ pushed[n - 1].path # pushed[1].path
            /\ pushed[n] = Event("Delete", pushed[1].path, NoPath))
           => debounced = (pushed[n - 1].path :> Deleted(pushed[n - 1].path, pushed[1].path))
                          @@ (pushed[1].path :> Deleted(pushed[1].path, NoPath))

\* Create(1), Rename(1, 2), Delete(2) and Delete(1) have left two deletions
C20_Witness ==
    /\ pushed = <<Event("Create", 1, NoPath), Event("Rename", 1, 2),
                  Event("Delete", 2, NoPath), Event("Delete", 1, NoPath)>>
    /\ debounced = (2 :> [old |-> 1, kind |-> "Delete", at |-> 2])
                   @@ (1 :> [old |-> NoPath, kind |-> "Delete", at |-> 1])

-----------------------------------------------------------------------------
(* Batches debounced apart and combined                                    *)

MaxBatches == 3

\* The event sequences a batch is debounced from
CombSeqs ==
    { <<>> } \cup { <<ev>> : ev \in DebEvents }
    \cup { <<Event("Rename", 2, 3), Event("Rename", 1, 2)>>,
           <<Event("Modify", 1, NoPath), Event("Rename", 1, 2)>>,
           <<Event("Rename", 1, 2), Event("Create", 1, NoPath)>>,
           <<Event("Delete", 1, NoPath), Event("Create", 1, NoPath)>> }

InitComb ==
    /\ batches = <<>>
    /\ merged = Idle
    /\ drain = Idle
    /\ debounced = Idle
    /\ pushed = Idle
    /\ detector = Idle
    /\ regs = Idle
    /\ last = Idle
    /\ nodes = Idle
    /\ paths = Idle
    /\ invalid_connections = Idle
    /\ EngineUntouchedIdle

CombUntouched ==
    <<graphVars, writes, panicked, calls, patched, tasks, locks, graph0, orch, ptasks,
      writes_queue,
      applied, debounced, pushed, detector, regs, last, drain>>

\* The batch of the i-th event sequence
BatchOf(i) == extend_from_sequential(NewDebouncedEvents, batches[i])

\* A further event sequence is debounced into a batch of its own
FromSequential ==
    /\ merged = Idle
    /\ Len(batches) < MaxBatches
    /\ \E evs \in CombSeqs : batches' = Append(batches, evs)
    /\ UNCHANGED <<merged, CombUntouched>>

\* The second batch is merged into the first
CombineTwo ==
    /\ merged = Idle
    /\ Len(batches) = 2
    /\ \E asc \in Orders(BatchOf(2)) :
         merged' = [of |-> 2, asc |-> asc, into |-> combine(BatchOf(1), BatchOf(2), asc)]
    /\ UNCHANGED <<batches, CombUntouched>>

\* The three batches are merged, the first two first (left) and the last
\* two first (right)
CombineThree ==
    /\ merged = Idle
    /\ Len(batches) = 3
    /\ \E asc_b \in Orders(BatchOf(2)), asc_c \in Orders(BatchOf(3)) :
         \E bc \in {combine(BatchOf(2), BatchOf(3), asc_c)} :
            \E asc_bc \in Orders(bc) :
               merged' =
                 [of |-> 3,
                  left |-> combine(combine(BatchOf(1), BatchOf(2), asc_b), BatchOf(3), asc_c),
                  right |-> combine(BatchOf(1), bc, asc_bc)]
    /\ UNCHANGED <<batches, CombUntouched>>

NextComb ==
    \/ FromSequential
    \/ CombineTwo
    \/ CombineThree

SpecComb == InitComb /\ [][NextComb]_vars

-----------------------------------------------------------------------------
(* Combining properties                                                    *)

\* C21: the second batch merged into the first is the batch debounced from
\* the events of the first followed by the events of the second, in whatever
\* order the entries of the second batch were iterated.
C21_CombineIsSequential ==
    (merged # Idle /\ merged.of = 2) =>
        merged.into = extend_from_sequential(NewDebouncedEvents, batches[1] \o batches[2])

\* C22: combining the second batch into the first and the third into the
\* result gives the batch that combining the third into the second and that
\* into the first gives.
C22_CombineIsAssociative ==
    (merged # Idle /\ merged.of = 3) => merged.left = merged.right

-----------------------------------------------------------------------------
(* One patch on a graph built from a directory                             *)

\* The documents of the patch model: one node 1 or 2, titled "t" or "u",
\* with no link or a link to 1, 2 or 3 (no node has id 3); and two nodes, the
\* first titled "t" or "u", the second with no link or a link to the first.
PatchContents ==
    { ReadFailed }
    \cup { File(id :> FileNode(title, links)) :
             id \in {1, 2}, title \in {"t", "u"},
             links \in {NoLinks, LinkTo(1), LinkTo(2), LinkTo(3)} }
    \cup { File((1 :> FileNode(title, NoLinks)) @@ (2 :> FileNode("t", links))) :
             title \in {"t", "u"}, links \in {NoLinks, LinkTo(1)} }

PatchDirs ==
    { <<>> }
    \cup { <<Entry(p, NoPath, "Create", c)>> : p \in PathSet, c \in PatchContents }
    \cup { <<Entry(1, NoPath, "Create", c), Entry(2, NoPath, "Create", d)>> :
             c \in PatchContents, d \in PatchContents }

\* A path with the path it was renamed from, or NoPath if it was not renamed
PatchMoves == { q \in PathSet \X (PathSet \cup {NoPath}) : q[1] # q[2] }

\* The batches of the patch model: one entry (a rename, an event or both),
\* or the deletion of one path and the creation of another
PatchBatches ==
    { <<Entry(q[1], q[2], "Delete", ReadFailed)>> : q \in PatchMoves }
    \cup { <<Entry(q[1], q[2], k, c)>> :
             q \in PatchMoves, k \in {"Create", "Modify"}, c \in PatchContents }
    \cup { <<Entry(q[1], q[2], "None", ReadFailed)>> :
             q \in { r \in PatchMoves : r[2] # NoPath } }
    \cup { <<Entry(q[1], NoPath, "Delete", ReadFailed), Entry(q[2], NoPath, "Create", c)>> :
             q \in { r \in PathSet \X PathSet : r[1] # r[2] },
             c \in PatchContents \ {ReadFailed} }

NoPatch == [es |-> <<>>, asc |-> TRUE, before |-> EmptyGraph]

InitPatch ==
    /\ \E dir \in PatchDirs, asc \in BOOLEAN :
         \E r \in {from_dir(dir, asc)} :
            /\ ~r.panic
            /\ nodes = r.nodes
            /\ paths = r.paths
            /\ invalid_connections = r.ic
            /\ writes = r.writes
    /\ panicked = FALSE
    /\ patched = NoPatch
    /\ calls = Idle
    /\ tasks = Idle
    /\ locks = Idle
    /\ graph0 = Idle
    /\ orch = Idle
    /\ ptasks = Idle
    /\ writes_queue = Idle
    /\ applied = Idle
    /\ UnitIdle

\* The one call of Graph::process_fs_patch, run to its end (or to its panic)
ApplyPatch ==
    /\ patched = NoPatch
    /\ \E es \in PatchBatches, asc \in BOOLEAN :
         \E r \in {process_fs_patch(Graph, from_events(es), asc)} :
            /\ nodes' = r.nodes
            /\ paths' = r.paths
            /\ invalid_connections' = r.ic
            /\ writes' = r.writes
            /\ panicked' = r.panic
            /\ patched' = [es |-> es, asc |-> asc, before |-> Graph]
    /\ UNCHANGED <<calls, tasks, locks, graph0, orch, ptasks, writes_queue, applied, unitVars>>

NextPatch == ApplyPatch

SpecPatch == InitPatch /\ [][NextPatch]_vars

-----------------------------------------------------------------------------
(* Patch properties                                                        *)

\* The graph the call was made on
Before == patched.before

\* The call was made and ran to its end
Patched == patched # NoPatch /\ ~panicked

\* What the maps of the graph g say about a node
HasNodeIn(g, id) ==
    /\ id \in DOMAIN g.nodes
    /\ g.nodes[id] \in DOMAIN g.paths
    /\ g.paths[g.nodes[id]].hasdoc
    /\ id \in DOMAIN g.paths[g.nodes[id]].document

NodeIn(g, id) == g.paths[g.nodes[id]].document[id]

ConnsIn(g, s) == IF HasNodeIn(g, s) THEN DOMAIN NodeIn(g, s).conns ELSE {}

ValidConnsIn(g, s) == { t \in ConnsIn(g, s) : NodeIn(g, s).conns[t].valid }

BacklinksIn(g, t) == IF HasNodeIn(g, t) THEN NodeIn(g, t).backlinks ELSE {}

\* The paths the call returned corrective writes for
Written == { w.path : w \in writes }

\* C25: when the patch adds a node with id X that invalid_connections had
\* an entry for, then after it invalid_connections has no entry for X, and
\* every node of that entry that is still live, with its connection to X,
\* has that connection marked valid, is among the backlinks of X, and has its
\* path written.
C25_ForwardReferencesResolved ==
    Patched =>
        \A X \in (DOMAIN nodes \ DOMAIN Before.nodes) \cap DOMAIN Before.ic :
            /\ X \notin DOMAIN invalid_connections
            /\ \A s \in { r \in Before.ic[X] : X \in Conns(r) } :
                 /\ X \in ValidConns(s)
                 /\ s \in Backlinks(X)
                 /\ nodes[s] \in Written

\* A node was added whose id a node of another path had an invalid
\* connection to, and that connection is now valid
C25_Witness ==
    /\ Patched
    /\ \E X \in (DOMAIN nodes \ DOMAIN Before.nodes) \cap DOMAIN Before.ic :
         \E s \in Before.ic[X] :
            /\ X \in ValidConns(s)
            /\ s \in Backlinks(X)
            /\ nodes[s] # nodes[X]
            /\ nodes[s] \in Written

\* The batch was one modification, of a tracked path that was not renamed,
\* read and parsed into the nodes the path held with the links they had: an
\* edit of titles at most
TitleEdit ==
    /\ Patched
    /\ Len(patched.es) = 1
    /\ patched.es[1].kind = "Modify"
    /\ patched.es[1].old = NoPath
    /\ patched.es[1].contents.ok
    /\ patched.es[1].path \in DOMAIN Before.paths
    /\ Before.paths[patched.es[1].path].hasdoc
    /\ DOMAIN patched.es[1].contents.nodes = DOMAIN Before.paths[patched.es[1].path].document
    /\ \A id \in DOMAIN patched.es[1].contents.nodes :
         DOMAIN patched.es[1].contents.nodes[id].links
           = DOMAIN Before.paths[patched.es[1].path].document[id].conns

\* The document the modified path held
EditedDoc == Before.paths[patched.es[1].path].document

\* The nodes whose title the modification changed
Retitled ==
    { t \in DOMAIN EditedDoc : EditedDoc[t].title # patched.es[1].contents.nodes[t].title }

\* The instructions PathNode::update gave for the modification
EditUpdates ==
    Update(Before.paths[patched.es[1].path], patched.es[1].path, patched.es[1].contents,
           patched.asc).updates

\* C26: when a modification changes the title of nodes and nothing else,
\* the instructions it gives are one CheckConnection{from: b, to: t} for
\* every retitled node t and every b among the backlinks of t, and no other;
\* and the patch returns one write for every path that holds such a b, and
\* no write for any other path, the modified path included.
C26_TitleEditRewritesReferrers ==
    (TitleEdit /\ Retitled # {}) =>
        /\ \A t \in Retitled : \A b \in EditedDoc[t].backlinks :
             Count(EditUpdates, CheckConnection(b, t)) = 1
        /\ \A i \in 1..Len(EditUpdates) :
             \E t \in Retitled : \E b \in EditedDoc[t].backlinks :
                EditUpdates[i] = CheckConnection(b, t)
        /\ \A q \in PathSet :
             Cardinality({ w \in writes : w.path = q })
               = IF \E t \in Retitled : \E b \in EditedDoc[t].backlinks \cap DOMAIN nodes :
                       nodes[b] = q
                 THEN 1 ELSE 0

\* A node was retitled that a node of another path links to: that path is
\* written and the modified path is not
C26_Witness ==
    /\ TitleEdit
    /\ \E t \in Retitled : \E b \in EditedDoc[t].backlinks \cap DOMAIN nodes :
         /\ nodes[b] # patched.es[1].path
         /\ Written = {nodes[b]}
         /\ t \in ValidConns(b)
         /\ NodeOf(b).conns[t].title = patched.es[1].contents.nodes[t].title

\* The nodes the patch removed
Removed == DOMAIN Before.nodes \ DOMAIN nodes

\* C27: when the patch removes a node t, then after it no surviving node
\* has a connection to t marked valid, and no surviving node has t among its
\* backlinks.
C27_RemovedNodeUnlinked ==
    Patched =>
        \A t \in Removed : \A s \in DOMAIN nodes :
            /\ t \notin ValidConns(s)
            /\ t \notin Backlinks(s)

\* The batch was one modification, of a tracked path that was not renamed,
\* whose read or parse failed
FailedEdit ==
    /\ Patched
    /\ Len(patched.es) = 1
    /\ patched.es[1].kind = "Modify"
    /\ patched.es[1].old = NoPath
    /\ ~patched.es[1].contents.ok
    /\ patched.es[1].path \in DOMAIN Before.paths

\* C28: a modification whose read or parse fails sets the error of its
\* path and changes nothing else: the document and node_ids of the path,
\* every other PathNode, `nodes` and invalid_connections are as before, and
\* no write is returned; and a later modification of the path that parses
\* leaves the path with no error.
C28_FailedEditKeepsGraph ==
    FailedEdit =>
        /\ nodes = Before.nodes
        /\ invalid_connections = Before.ic
        /\ paths = [Before.paths EXCEPT ![patched.es[1].path].error = TRUE]
        /\ writes = {}
        /\ \A c \in PatchContents \ {ReadFailed} : \A asc \in BOOLEAN :
             LET r == process_fs_patch(Graph,
                                       from_events(<<Entry(patched.es[1].path, NoPath,
                                                           "Modify", c)>>),
                                       asc)
             IN ~r.panic => ~r.paths[patched.es[1].path].error

\* The failed modification was of a path with a parsed document, which it
\* keeps with the error
C28_Witness ==
    /\ FailedEdit
    /\ Before.paths[patched.es[1].path].hasdoc
    /\ ~Before.paths[patched.es[1].path].error
    /\ paths[patched.es[1].path].error
    /\ paths[patched.es[1].path].document = Before.paths[patched.es[1].path].document
    /\ paths[patched.es[1].path].node_ids # {}

\* The state of the graph g: its maps, and for every node its title, its
\* connections, those of them marked valid, and its backlinks
GraphState(g) ==
    [nodes |-> g.nodes,
     ic |-> g.ic,
     paths |-> [p \in DOMAIN g.paths |->
                  [hasdoc |-> g.paths[p].hasdoc,
                   node_ids |-> g.paths[p].node_ids,
                   error |-> g.paths[p].error,
                   document |->
                     [id \in DOMAIN g.paths[p].document |->
                        [title |-> g.paths[p].document[id].title,
                         conns |-> DOMAIN g.paths[p].document[id].conns,
                         valid |-> { t \in DOMAIN g.paths[p].document[id].conns :
                                       g.paths[p].document[id].conns[t].valid },
                         backlinks |-> g.paths[p].document[id].backlinks]]]]]

\* The creation or modification of the batch, to be applied again
Replayed ==
    <<Entry(patched.es[1].path, NoPath, patched.es[1].kind, patched.es[1].contents)>>

\* C29: after a patch of creations and modifications, applying the same
\* creations and modifications with the same file contents again leaves the
\* state of the graph as it is and returns no write.
C29_ReplayChangesNothing ==
    (Patched /\ Len(patched.es) = 1 /\ patched.es[1].kind \in {"Create", "Modify"}) =>
        \A asc \in BOOLEAN :
            LET r == process_fs_patch(Graph, from_events(Replayed), asc)
            IN /\ ~r.panic
               /\ GraphState(r) = GraphState(Graph)
               /\ r.writes = {}

\* C30: a link from a node to its own id is never marked valid, and no
\* node is among its own backlinks.
C30_SelfLinksStayInvalid ==
    \A id \in DOMAIN nodes : id \notin ValidConns(id) /\ id \notin Backlinks(id)

-----------------------------------------------------------------------------
(* The writes queue drained by the timeout handler                         *)

MaxDrainPatches == 2

\* The batches the orchestrator hands to add_patch
DrainBatches ==
    { extend_from_sequential(NewDebouncedEvents, evs) :
        evs \in { <<>>, <<Event("Modify", 1, NoPath)>>, <<Event("Delete", 2, NoPath)>>,
                  <<Event("Rename", 1, 2)>> } }

\* No write of the engine has reached the file
NoWrite == 0 - 1

\* FsEngine::new, with the writes of Graph::from_dir queued under the index
\* register_update returned.  processing holds the patch indices whose
\* graph-processing task has yet to push its writes; holds is, per path, the
\* patch index of the write whose contents the file has, and latest that of
\* the write to the path that left the queue last.
InitDrain ==
    /\ \E u \in {register_update(NewConflictDetector)} :
       \E ps \in SUBSET PathSet :
         drain = [conflict_detector |-> u.cd,
                  writes_queue |-> <<[writes |-> WritesOf({ Write(p, "Filesystem") : p \in ps },
                                                          TRUE),
                                      patch_idx |-> u.idx]>>,
                  processing |-> {},
                  holds |-> [p \in PathSet |-> NoWrite],
                  latest |-> [p \in PathSet |-> NoWrite],
                  status |-> "running"]
    /\ debounced = Idle
    /\ pushed = Idle
    /\ detector = Idle
    /\ regs = Idle
    /\ last = Idle
    /\ batches = Idle
    /\ merged = Idle
    /\ nodes = Idle
    /\ paths = Idle
    /\ invalid_connections = Idle
    /\ EngineUntouchedIdle

DrainUntouched ==
    <<graphVars, writes, panicked, calls, patched, tasks, locks, graph0, orch, ptasks,
      writes_queue, applied, debounced, pushed, detector, regs, last, batches, merged>>

\* The patch indices of the writes in made that go to path p
WritersOf(made, p) == { made[i].patch_idx : i \in { j \in 1..Len(made) : made[j].path = p } }

\* The patch index of the last write in made that goes to path p
LastWriterOf(made, p) ==
    made[CHOOSE i \in 1..Len(made) :
            /\ made[i].path = p
            /\ \A j \in 1..Len(made) : made[j].path = p => j <= i].patch_idx

\* The sleep branch of the select!, as far as the writes go: add_patch if
\* there is no patch task (start), the drain of the queue through the
\* conflict detector, and join_all on the tokio::fs::write futures.  The
\* futures of one drain run on the blocking pool at once, so a file written
\* by several of them ends with the contents of any one of them.
DrainTimeout ==
    /\ drain.status = "running"
    /\ \E start \in BOOLEAN, batch \in DrainBatches, asc \in BOOLEAN :
         /\ start => drain.conflict_detector.next_patch < MaxDrainPatches
         /\ ~start => batch = NewDebouncedEvents
         /\ \E a \in {add_patch(drain.conflict_detector, batch, asc)} :
            \E d \in {Drain([cd |-> IF start THEN a.cd ELSE drain.conflict_detector,
                             queue |-> drain.writes_queue, local_self_writes |-> {},
                             written |-> <<>>, made |-> <<>>, status |-> "running"], asc)} :
            \E ends \in [PathSet -> {NoWrite} \cup 0..MaxDrainPatches] :
              /\ \A p \in PathSet :
                   ends[p] \in IF WritersOf(d.made, p) = {} THEN {drain.holds[p]}
                               ELSE WritersOf(d.made, p)
              /\ drain' = [conflict_detector |-> d.cd,
                           writes_queue |-> d.queue,
                           processing |-> IF start THEN drain.processing \cup {a.idx}
                                          ELSE drain.processing,
                           holds |-> ends,
                           latest |-> [p \in PathSet |->
                                         IF WritersOf(d.made, p) = {} THEN drain.latest[p]
                                         ELSE LastWriterOf(d.made, p)],
                           status |-> d.status]
    /\ UNCHANGED DrainUntouched

\* A graph-processing task pushes the writes of its patch
DrainPush ==
    /\ drain.status = "running"
    /\ \E k \in drain.processing, ps \in SUBSET PathSet, asc \in BOOLEAN :
         drain' = [drain EXCEPT
                     !.writes_queue =
                         Append(@, [writes |-> WritesOf({ Write(p, "Filesystem") : p \in ps },
                                                        asc),
                                    patch_idx |-> k]),
                     !.processing = @ \ {k}]
    /\ UNCHANGED DrainUntouched

NextDrain ==
    \/ DrainTimeout
    \/ DrainPush

SpecDrain == InitDrain /\ [][NextDrain]_vars

-----------------------------------------------------------------------------
(* Drain properties                                                        *)

\* C31: writes are actioned on disk in the order they were queued: each file
\* the engine has written holds the contents of the write to its path that
\* was queued last among those that went through.
C31_WritesActionedInQueueOrder ==
    \A p \in PathSet : drain.holds[p] = drain.latest[p]

-----------------------------------------------------------------------------
(* The orchestrator once events stop arriving                              *)

\* The batch the orchestrator is accumulating was given to a patch task whose
\* process_fs_patch has run to its end
BatchApplied ==
    \E k \in DOMAIN ptasks : ptasks[k].events = orch.debounced_events /\ ptasks[k].inner = "done"

\* The timer has fired since the last event, and no spawned task has a step
\* left to take
TasksSettled ==
    /\ orch.status = "running"
    /\ orch.patch_task # NoHandle
    /\ \A k \in DOMAIN ptasks : ptasks[k].outer \notin {"building", "final"}
                                /\ ptasks[k].inner # "spawned"

\* C32: no filesystem event is lost.  While the orchestrator holds a patch
\* task's handle (so that the next event either resets the batch or aborts
\* the task), that task was given the whole accumulated batch and has not
\* been cancelled; and once every task has run as far as it can, the batch
\* holding the event pushed last is that of a patch whose process_fs_patch
\* has run to its end.
C32_NoEventLost ==
    /\ (orch.status = "running" /\ orch.patch_task # NoHandle)
         => /\ ptasks[orch.patch_task].events = orch.debounced_events
            /\ ptasks[orch.patch_task].outer # "cancelled"
    /\ (TasksSettled /\ orch.recv.pushed) => BatchApplied

\* The instruction list Phase B gave the call
PatchUpdates ==
    With(process_renames(Before, from_events(patched.es).renames, patched.asc), LAMBDA r :
        PhaseB(r.paths, from_events(patched.es), patched.asc))

\* The PathNode the batch's entry was diffed against: that of the path the
\* entry was renamed from, if it was renamed
Origin == IF patched.es[1].old # NoPath THEN patched.es[1].old ELSE patched.es[1].path

\* The batch renames or deletes a path and no more, or modifies a tracked
\* path whose file now holds some of the nodes it held, with their titles,
\* and some of the links of each
QuietPatch ==
    /\ Patched
    /\ Len(patched.es) = 1
    /\ \/ patched.es[1].kind \in {"None", "Delete"}
       \/ /\ patched.es[1].kind = "Modify"
          /\ patched.es[1].contents.ok
          /\ Origin \in DOMAIN Before.paths
          /\ Before.paths[Origin].hasdoc
          /\ \A id \in DOMAIN patched.es[1].contents.nodes :
               /\ id \in DOMAIN Before.paths[Origin].document
               /\ patched.es[1].contents.nodes[id].title = Before.paths[Origin].document[id].title
               /\ DOMAIN patched.es[1].contents.nodes[id].links
                    \subseteq DOMAIN Before.paths[Origin].document[id].conns

\* The nodes that a CheckConnection of the call found in `nodes` as the
\* target of a connection from the node `from`: the instruction is in the
\* list, or it is the one AddNode issues for a referrer that
\* invalid_connections records
CheckedTargets(from) ==
    { to \in DOMAIN nodes :
        \/ \E i \in 1..Len(PatchUpdates) : PatchUpdates[i] = CheckConnection(from, to)
        \/ /\ \E i \in 1..Len(PatchUpdates) :
                PatchUpdates[i].op = "AddNode" /\ PatchUpdates[i].id = to
           /\ to \in DOMAIN Before.ic
           /\ from \in Before.ic[to] }

\* C34: the call returns a write for a path only if an AddNode of the patch
\* names the path or a CheckConnection of the patch found the target of a
\* connection from a node of the path, and at most one write for a path; and a patch that only renames or deletes a
\* path, or takes nodes or links out of a file, returns no write.
C34_WritesOnlyForAddedOrValidated ==
    Patched =>
        /\ \A p \in Written :
             \/ p \in paths_to_write(PatchUpdates)
             \/ \E from \in DOMAIN nodes : nodes[from] = p /\ CheckedTargets(from) # {}
        /\ \A w1, w2 \in writes : w1.path = w2.path => w1 = w2
        /\ QuietPatch => writes = {}

\* A modification that takes a valid link out of a node was applied, and
\* returned no write
C34_Witness ==
    /\ QuietPatch
    /\ patched.es[1].kind = "Modify"
    /\ \E id \in DOMAIN patched.es[1].contents.nodes :
         DOMAIN patched.es[1].contents.nodes[id].links
            # ValidConnsIn(Before, id) \cup DOMAIN patched.es[1].contents.nodes[id].links
    /\ writes = {}

\* No patch task has a step left to take and the writes queue is drained
Quiescent ==
    /\ orch.status = "running"
    /\ writes_queue = <<>>
    /\ \A k \in DOMAIN ptasks : ptasks[k].outer \notin {"building", "final"}
                                /\ ptasks[k].inner # "spawned"

\* C35: whenever the system is quiescent, the patch table of the
\* orchestrator's conflict detector holds the theoretical next-patch entry
\* and no other.
C35_PatchTableDrained ==
    Quiescent =>
        DOMAIN orch.conflict_detector.patch_table = {orch.conflict_detector.next_patch}

-----------------------------------------------------------------------------
(* The order locks are asked for in                                        *)

\* The place of a lock in the global order: nodes, the index maps, paths,
\* invalid_connections, then the PathNodes by ascending path
LockRank(l) ==
    CASE l = "nodes" -> 1
      [] l = "index" -> 2
      [] l = "paths" -> 3
      [] l = "invalid_connections" -> 4
      [] OTHER -> 4 + (CHOOSE p \in PathSet : l = PathLock(p))

\* The locks task t holds a guard on
HeldBy(lk, t) == { l \in DOMAIN lk : lk[l].w = t \/ lk[l].r[t] > 0 }

\* Task t is queued for lock l
QueuedFor(lk, t, l) == \E i \in 1..Len(lk[l].q) : lk[l].q[i].t = t

\* C36: a task asks for a lock (is given it at once, or queues for it) only
\* while every lock it holds comes earlier in the global order; so it asks
\* neither for `nodes` or an index map while it holds `paths`, nor for a
\* read lock it holds, nor for the write lock where it holds the read lock.
C36_LocksAskedInGlobalOrder ==
    [][\A t \in Tasks : \A l2 \in LockNames :
          (/\ ~QueuedFor(locks, t, l2)
           /\ \/ QueuedFor(locks', t, l2)
              \/ locks'[l2].w = t /\ locks[l2].w # t
              \/ locks'[l2].r[t] > locks[l2].r[t] /\ locks[l2].w # t)
            => \A l \in HeldBy(locks, t) : LockRank(l) < LockRank(l2)]_vars

-----------------------------------------------------------------------------
(* The graph between calls                                                 *)

\* C33: between calls, the title stored on a connection marked valid is the
\* current title of the node it leads to.
C33_ValidTitlesCurrent ==
    \A s \in DOMAIN nodes : \A t \in ValidConns(s) :
        HasNode(t) => NodeOf(s).conns[t].title = NodeOf(t).title

\* C37: between calls the backlinks of every node are exact: each is a key
\* of `nodes` and has a connection entry to the node.
C37_BacklinksExact ==
    \A t \in DOMAIN nodes : \A s \in Backlinks(t) : Live(s) /\ t \in Conns(s)

\* The batch deletes one path and creates another
MovedFile ==
    /\ Patched
    /\ Len(patched.es) = 2
    /\ patched.es[1].kind = "Delete"
    /\ patched.es[2].kind = "Create"

\* The ids of the deleted path's document that the created file holds
MovedIds ==
    IF patched.es[1].path \in DOMAIN Before.paths /\ Before.paths[patched.es[1].path].hasdoc
    THEN DOMAIN Before.paths[patched.es[1].path].document \cap DOMAIN patched.es[2].contents.nodes
    ELSE {}

\* C38: when one patch deletes a path holding node X and creates a path
\* whose file holds X, then after it `nodes` maps X to the created path, the
\* PathNode of that path holds X, and every node X has a valid connection to
\* has X among its backlinks.
C38_DeletionsBeforeCreations ==
    MovedFile =>
        \A X \in MovedIds :
            /\ X \in DOMAIN nodes
            /\ nodes[X] = patched.es[2].path
            /\ HasNode(X)
            /\ X \in paths[nodes[X]].node_ids
            /\ \A t \in ValidConns(X) : X \in Backlinks(t)

\* A node with a valid connection was moved from the deleted path to the
\* created one
C38_Witness ==
    /\ MovedFile
    /\ \E X \in MovedIds :
         /\ ValidConnsIn(Before, X) # {}
         /\ ValidConns(X) # {}
         /\ nodes[X] = patched.es[2].path

-----------------------------------------------------------------------------
(* The loop and the table of detect_conflicts                              *)

RECURSIVE LoopLookups(_, _, _)
\* The number of conflict_table.get calls the `loop` of detect_conflicts
\* makes for a write, n having been made; counting stops once there are more
\* than the table has keys and one (the loop is then in a cycle)
LoopLookups(table, path, n) ==
    IF n > Cardinality(DOMAIN table) + 1 THEN n
    ELSE IF path \notin DOMAIN table THEN n + 1
    ELSE IF Cardinality(table[path].rename) = 1
    THEN LoopLookups(table, CHOOSE q \in table[path].rename : TRUE, n + 1)
    ELSE n + 1

\* The conflict table of the last call, as that call iterated events_since
LastTable == conflict_table(last.events_since, last.asc).table

\* C39: detect_conflicts returns for every write and every events_since
\* accumulated from any event sequence, and its rename-following loop makes
\* at most two table lookups for each write.
C39_LoopEndsInTwoLookups ==
    (last.made > 0 /\ ~last.panic) =>
        /\ ~last.hang
        /\ \A i \in 1..Len(last.writes) : LoopLookups(LastTable, last.writes[i].path, 0) <= 2

\* C40: for every events_since reached by pushing and combining event
\* sequences, building the conflict table fails no assertion (a renamed
\* entry's new path that carries an event is not yet a key of the table), and
\* the table and what detect_conflicts returns are the same in both
\* iteration orders of events_since.
C40_TableAssertionsHold ==
    (last.made > 0 /\ ~last.panic) =>
        /\ ~last.assert
        /\ conflict_table(last.events_since, TRUE) = conflict_table(last.events_since, FALSE)
        /\ \A i \in 1..Len(last.writes) :
             ResolveWrite(conflict_table(last.events_since, TRUE).table, last.writes[i], 0)
               = ResolveWrite(conflict_table(last.events_since, FALSE).table, last.writes[i], 0)

====
